---- MODULE Spec2Model ----
(***************************************************************************)
(* A state-machine model of the mind-map editor in src/src/App.tsx: the    *)
(* graph store, the snapshot history, the pointer and the keyboard         *)
(* handlers.  One action is one DOM event (or one timer callback); it      *)
(* reads the state of the render that registered the handler (the unprimed *)
(* variables) and writes what the handler's setters and ref assignments    *)
(* leave behind.                                                           *)
(*                                                                         *)
(* Numbers.  World and screen coordinates are kept on the integer grid     *)
(* (one world unit), the zoom factor in percent.  JavaScript objects are   *)
(* records whose fields hold the value a read of the property yields, so   *)
(* an absent key and a key holding undefined are the same value Undefined. *)
(* A null id is NoId.  Labels are sequences of one-character strings.      *)
(***************************************************************************)
EXTENDS Integers, Sequences, FiniteSets, TLC

\* ------------------------------------------------------------ constants
BASE_W == 120
BASE_H == 64
DRAG_THRESHOLD == 16
CHILD_RADIUS == 160
NoId == 0
\* NaN, as a viewport scale (a scale is otherwise positive), as the pan
\* computed from it, and as a number read from a stored object that lacks
\* the field (no node of the runs is otherwise at -1).
NaN == -1
Undefined == "undefined"

\* The drawing surface's size (svg.getBoundingClientRect()) and the margin
\* bringBoxIntoView keeps.
ViewW == 800
ViewH == 600
VIEW_MARGIN == 24
NODE_PADDING == 8
EDGE_PADDING == 6

\* ------------------------------------------------------------ bounds
\* The deepest undo stack the model lets the history grow to.
MaxUndo == 3
\* The most nodes the store holds.
MaxNodes == 4

\* cos and sin of k * GOLDEN_ANGLE, times 10000, for k = 0 .. 131
\* (index k + 1), the angle accumulated as the code accumulates it.
CosTable ==
  << 10000, -7374, 874, 6084, -9847, 8438, -2596, -4609, 9393, -9243, 4238, 2993,
     -8652, 9767, -5751, -1285, 7646, -9991, 7088, -462, -6407, 9911, -8209, 2195,
     4972, -9527, 9078, -3861, -3385, 8852, -9670, 5408, 1694, -7906, 9966, -6791,
     49, 6719, -9957, 7966, -1790, -5326, 9644, -8897, 3476, 3770, -9037, 9556,
     -5056, -2100, 8152, -9923, 6482, 364, -7019, 9987, -7709, 1382, 5671, -9745,
     8701, -3086, -4150, 9206, -9426, 4695, 2502, -8385, 9864, -6162, -777, 7307,
     -10000, 7439, -971, -6007, 9830, -8490, 2690, 4522, -9359, 9280, -4327, -2900,
     8603, -9787, 5831, 1188, -7583, 9995, -7157, 559, 6332, -9897, 8264, -2290,
     -4887, 9497, -9118, 3950, 3293, -8806, 9694, -5490, -1598, 7846, -9973, 6862,
     -146, -6646, 9948, -8024, 1886, 5243, -9618, 8941, -3567, -3680, 8994, -9584,
     5140, 2004, -8096, 9935, -6556, -267, 6949, -9981, 7771, -1478, -5591, 9723 >>
SinTable ==
  << 0, 6755, -9962, 7936, -1742, -5367, 9657, -8874, 3430, 3816, -9057, 9542,
     -5014, -2147, 8181, -9917, 6444, 413, -7054, 9989, -7678, 1333, 5711, -9756,
     8676, -3039, -4194, 9225, -9410, 4652, 2549, -8411, 9856, -6123, -826, 7341,
     -10000, 7407, -923, -6046, 9839, -8464, 2643, 4566, -9376, 9262, -4283, -2946,
     8628, -9777, 5791, 1237, -7615, 9993, -7123, 511, 6370, -9904, 8236, -2242,
     -4929, 9512, -9098, 3906, 3339, -8829, 9682, -5449, -1646, 7876, -9970, 6827,
     -98, -6683, 9953, -7995, 1838, 5285, -9631, 8919, -3522, -3725, 9016, -9570,
     5098, 2052, -8124, 9929, -6519, -316, 6984, -9984, 7740, -1430, -5631, 9734,
     -8725, 3132, 4105, -9187, 9442, -4738, -2454, 8358, -9872, 6200, 728, -7274,
     9999, -7472, 1020, 5968, -9821, 8515, -2737, -4479, 9342, -9298, 4371, 2853,
     -8578, 9797, -5870, -1140, 7551, -9996, 7191, -608, -6294, 9890, -8291, 2337 >>

\* ------------------------------------------------------------ arithmetic
Max2(a, b) == IF a >= b THEN a ELSE b
Min2(a, b) == IF a <= b THEN a ELSE b
Abs(a) == IF a < 0 THEN -a ELSE a
clamp(v, a, b) == Max2(a, Min2(b, v))

\* Math.round(n / d) for d > 0: the nearest integer, a tie going up.
RoundDiv(n, d) == (2 * n + d) \div (2 * d)
\* Math.ceil(n / d) for d > 0.
CeilDiv(n, d) == -((-n) \div d)

\* cos(k * GOLDEN_ANGLE) * radius and sin(k * GOLDEN_ANGLE) * radius on the grid.
SpiralDX(k, radius) == RoundDiv(CosTable[k + 1] * radius, 10000)
SpiralDY(k, radius) == RoundDiv(SinTable[k + 1] * radius, 10000)

Range(s) == {s[i] : i \in DOMAIN s}
SeqMax(s) == CHOOSE m \in Range(s) : \A v \in Range(s) : v <= m

\* new Set(arr) in insertion order: the first occurrence of each element.
RECURSIVE Dedupe(_)
Dedupe(s) ==
  IF s = <<>> THEN <<>>
  ELSE LET r == Dedupe(SubSeq(s, 1, Len(s) - 1))
       IN IF s[Len(s)] \in Range(r) THEN r ELSE Append(r, s[Len(s)])

\* arr.indexOf(v), counted from 1; 0 when absent (JavaScript's -1).
IndexOf(s, v) ==
  IF v \in Range(s) THEN CHOOSE i \in DOMAIN s : s[i] = v /\ \A j \in 1..(i - 1) : s[j] # v
  ELSE 0

\* ------------------------------------------------------------ label layout
\* approxTextWidth(text, fontSize) <= avail, text.length * fontSize * 0.6 in
\* fifths: the double product is exact enough that no comparison with an
\* integer differs from the rational one for products below 3000.
approxFits(len, fontSize, avail) == 3 * len * fontSize <= 5 * avail
\* Math.ceil(text.length * fontSize * 0.6 + add)
approxCeil(len, fontSize, add) == CeilDiv(3 * len * fontSize, 5) + add

\* label.split(/\s+/).filter(Boolean), each word by its length: a word
\* ends at a character that is no space and is followed by a space or by the
\* end; it begins after the last space before that.
SplitWords(label) ==
  LET ends == {i \in DOMAIN label :
                 label[i] # " " /\ (i = Len(label) \/ label[i + 1] = " ")}
      before(e) == {j \in 1..e : label[j] = " "}
      lengthOf(e) == e - (IF before(e) = {} THEN 0
                          ELSE CHOOSE j \in before(e) : \A k \in before(e) : k <= j)
  IN [k \in 1..Cardinality(ends) |->
        lengthOf(CHOOSE e \in ends : Cardinality({f \in ends : f < e}) = k - 1)]

RECURSIVE SeqSum(_)
SeqSum(s) == IF s = <<>> THEN 0 ELSE Head(s) + SeqSum(Tail(s))

\* label.replace(/\s+/g, " ").trim().length || 1
TrimmedLen(label) ==
  LET ws == SplitWords(label)
      n == IF ws = <<>> THEN 0 ELSE SeqSum(ws) + Len(ws) - 1
  IN IF n = 0 THEN 1 ELSE n

\* The word loop of rebuild(): lines holds the lengths of the lines pushed,
\* current the length of the line being filled (0: the empty string).
RECURSIVE WrapWords(_, _, _, _, _)
WrapWords(ws, current, lines, width, fontSize) ==
  IF ws = <<>> THEN (IF current > 0 THEN Append(lines, current) ELSE lines)
  ELSE LET w == Head(ws)
           test == IF current > 0 THEN current + 1 + w ELSE w
       IN IF approxFits(test, fontSize, width - 32)
          THEN WrapWords(Tail(ws), test, lines, width, fontSize)
          ELSE WrapWords(Tail(ws), w,
                         IF current > 0 THEN Append(lines, current) ELSE lines,
                         width, fontSize)

\* for (let i = 0; i < 6; i++) if (rebuild()) break;  ->  [lines, width]
RECURSIVE RebuildLoop(_, _, _, _)
RebuildLoop(label, fontSize, width, i) ==
  LET split == SplitWords(label)
      ws == IF split # <<>> THEN split ELSE <<Len(label)>>
      lines == WrapWords(ws, 0, <<>>, width, fontSize)
  IN IF Len(lines) > 3
     THEN LET target == CeilDiv(TrimmedLen(label), 3)
              wider == Max2(width, approxCeil(target, fontSize, 32))
          IN IF i + 1 < 6 THEN RebuildLoop(label, fontSize, wider, i + 1)
             ELSE [lines |-> lines, width |-> wider]
     ELSE [lines |-> lines, width |-> width]

\* Math.round(baseFont * 1.15)
LineHeight(fontSize) == RoundDiv(115 * fontSize, 100)

layoutLabel(label, baseFont, minW) ==
  LET r == RebuildLoop(label, baseFont, Max2(minW, BASE_W), 0)
      longest == IF r.lines = <<>> THEN 0 ELSE SeqMax(r.lines)
  IN [lines |-> IF r.lines # <<>> THEN r.lines ELSE <<0>>,
      width |-> Max2(r.width, approxCeil(longest, baseFont, 32)),
      height |-> Max2(BASE_H, Len(r.lines) * LineHeight(baseFont) + 24),
      lineHeight |-> LineHeight(baseFont)]

\* clamp(Math.round(n.h * 0.35), 12, 20)
BaseFontOf(h) == clamp(RoundDiv(35 * h, 100), 12, 20)

resizeNodeForLabel(n) ==
  LET L == layoutLabel(n.label, BaseFontOf(n.h), BASE_W)
  IN [n EXCEPT !.w = L.width, !.h = L.height]

\* The layout the render computes for the node n, of the text shown in it.
RenderedLabel(n, text) == layoutLabel(text, BaseFontOf(n.h), n.w)

\* Math.round(h * 1.15): the double product falls below the tie at these h.
RoundUp115(h) ==
  RoundDiv(115 * h, 100) - (IF h \in {50, 90, 110, 170, 190, 210} THEN 1 ELSE 0)

\* ------------------------------------------------------------ state
VARIABLES
  nodes,               \* MindNode[]: records id, label, x, y, w, h, strokeColor, fillColor, bold
  edges,               \* Link[]: records id, source, target, label, dashed
  selectedId,          \* the primary selection, or NoId
  selectedIds,         \* Set<number>, in insertion order
  selectedEdgeIds,     \* Set<number>, in insertion order
  pan, scale,          \* the viewport: pan in pixels, scale in percent
  undoStack, redoStack,
  shiftTabPath,        \* the remembered root-to-leaf path, <<>> for null
  shiftTabIndex,       \* the position in it, counted from 0 as in the code
  draggingNodeId, dragOffset, somethingMoved,
  groupDragging, groupStart, groupStartPositions,
  panning, panStart, panAtStart,
  activeTouches,       \* Map pointerId -> client point, as a set of [id, x, y]
  pinchStart,          \* [set, d, scale, panX, panY, cx, cy]; set = FALSE for null
  marquee, linking,
  editingId, editingText,
  freshTyping,
  contextMenu,         \* [open, kind, targetNodeId, targetEdgeId, wx, wy]
  timers,              \* the setTimeout(..., 0) callbacks not yet run, oldest first
  loaded,              \* whether the load effect of the mount has run
  \* History variables: they record what happened and steer nothing.
  opPre,               \* after a mutating operation: the snapshot before it
  redoDropped,         \* and the length the redo stack had before it
  opUndone,            \* after that operation's undo: the snapshot before the operation
  undoPre,             \* after an undo: the snapshot before it
  undoRedone,          \* after that undo's redo: the snapshot before the undo
  undoPost,            \* after undo, redo: the snapshot the undo had left
  reUndone,            \* after undo, redo, undo: the snapshot the first undo had left
  dragPre,             \* the node press under way or just completed: the nodes and the
                       \* undo depth at pointer-down, the nodes moved, the phase
                       \* ("down", "moved", then "done" or, with no move, "still"),
                       \* and whether the handler ran again after pointer-up
  tabRun,              \* the run of Shift+Tab presses under way
  tabFrom,             \* after Tab: the node it was pressed on
  altFrom,             \* after Alt+Tab or Meta+Tab: the node it was pressed on
  noted                \* "char" after a printable keystroke, "link" after a link
                       \* gesture added its edge, "none" otherwise

storeVars == <<nodes, edges>>
selVars == <<selectedId, selectedIds, selectedEdgeIds>>
viewVars == <<pan, scale>>
histVars == <<undoStack, redoStack>>
navVars == <<shiftTabPath, shiftTabIndex>>
dragVars == <<draggingNodeId, dragOffset, somethingMoved,
              groupDragging, groupStart, groupStartPositions>>
panVars == <<panning, panStart, panAtStart>>
touchVars == <<activeTouches, pinchStart>>
editVars == <<editingId, editingText>>
progVars == <<storeVars, selVars, viewVars, histVars, navVars, dragVars, panVars,
              touchVars, marquee, linking, editVars, freshTyping, contextMenu, timers,
              loaded>>
ghostVars == <<opPre, redoDropped, opUndone, undoPre, undoRedone, undoPost, reUndone,
               dragPre, tabRun, tabFrom, altFrom, noted>>
vars == <<progVars, ghostVars>>

\* ------------------------------------------------------------ geometry
\* nodes.find(n => n.id === id): the first node with the id (callers test HasNode).
HasNode(ns, id) == \E i \in DOMAIN ns : ns[i].id = id
FindNode(ns, id) == ns[CHOOSE i \in DOMAIN ns : ns[i].id = id /\ \A j \in 1..(i - 1) : ns[j].id # id]

\* 2 * rectRadius(n)
rectDiameter(n) == Max2(n.w, n.h)

\* c * c < 4356 * len2 for c >= 0, without leaving 32 bits (4356 = 66 * 66).
SquareBelow66(c, len2) ==
  LET q == c \div 66
      r == c % 66
  IN q < 46000 /\ q * q + (132 * q * r + r * r) \div 4356 < len2

\* distPointToSeg(px, py, x1, y1, x2, y2) < BASE-radius + EDGE_PADDING  (= 66)
SegCloserThan66(px, py, x1, y1, x2, y2) ==
  LET vx == x2 - x1
      vy == y2 - y1
      wx == px - x1
      wy == py - y1
      len2 == vx * vx + vy * vy
      dot == wx * vx + wy * vy
      lim == Max2(BASE_W, BASE_H) \div 2 + EDGE_PADDING
  IN IF dot <= 0 THEN wx * wx + wy * wy < lim * lim
     ELSE IF dot >= len2 THEN (px - x2) * (px - x2) + (py - y2) * (py - y2) < lim * lim
     ELSE SquareBelow66(Abs(wx * vy - wy * vx), len2)

\* isPositionFree(x, y, parentId); parentId = NoId when the argument is omitted.
isPositionFree(x, y, parentId) ==
  /\ \A i \in DOMAIN nodes :
       LET n == nodes[i]
           dx == n.x - x
           dy == n.y - y
           reach == rectDiameter(n) + Max2(BASE_W, BASE_H) + 2 * NODE_PADDING
       IN n.id = parentId \/ ~(4 * (dx * dx + dy * dy) < reach * reach)
  /\ \A i \in DOMAIN edges :
       LET e == edges[i]
       IN \/ parentId # NoId /\ (e.source = parentId \/ e.target = parentId)
          \/ ~HasNode(nodes, e.source) \/ ~HasNode(nodes, e.target)
          \/ LET s == FindNode(nodes, e.source)
                 t == FindNode(nodes, e.target)
             IN ~SegCloserThan66(x, y, s.x, s.y, t.x, t.y)

isPointInNode(n, x, y) == 2 * Abs(x - n.x) <= n.w /\ 2 * Abs(y - n.y) <= n.h

\* findNodeAt(x, y, excludeId): the first node in store order holding the point.
\* A search that excludes no node.
findNodeAtAny(x, y, excludeId) ==
  LET hit == {i \in DOMAIN nodes : isPointInNode(nodes[i], x, y)}
  IN IF hit = {} THEN NoId
     ELSE nodes[CHOOSE i \in hit : \A j \in hit : i <= j].id
findNodeAt(x, y, excludeId) ==
  LET hit == {i \in DOMAIN nodes :
                /\ ~(excludeId # 0 /\ nodes[i].id = excludeId)
                /\ isPointInNode(nodes[i], x, y)}
  IN IF hit = {} THEN NoId
     ELSE nodes[CHOOSE i \in hit : \A j \in hit : i <= j].id

\* ------------------------------------------------------------ viewport
\* toWorld(clientX, clientY), the surface's rect at (0, 0)
toWorld(cx, cy) ==
  [x |-> RoundDiv((cx - pan.x) * 100, scale), y |-> RoundDiv((cy - pan.y) * 100, scale)]
\* toScreen under a given pan and scale
toScreenWith(p, sc, wx, wy) ==
  [x |-> p.x + RoundDiv(wx * sc, 100), y |-> p.y + RoundDiv(wy * sc, 100)]

\* The pan bringBoxIntoView(cx, cy, w, h) computes from pan p and scale sc.
\* The box corners are taken at twice their world size to keep odd widths exact.
bringPan(p, sc, cx, cy, w, h) ==
  LET leftX == p.x + RoundDiv((2 * cx - w) * sc, 200)
      leftY == p.y + RoundDiv((2 * cy - h) * sc, 200)
      rightX == p.x + RoundDiv((2 * cx + w) * sc, 200)
      rightY == p.y + RoundDiv((2 * cy + h) * sc, 200)
      x1 == IF leftX < VIEW_MARGIN THEN p.x + (VIEW_MARGIN - leftX) ELSE p.x
      x2 == IF rightX > ViewW - VIEW_MARGIN THEN x1 - (rightX - (ViewW - VIEW_MARGIN)) ELSE x1
      y1 == IF leftY < VIEW_MARGIN THEN p.y + (VIEW_MARGIN - leftY) ELSE p.y
      y2 == IF rightY > ViewH - VIEW_MARGIN THEN y1 - (rightY - (ViewH - VIEW_MARGIN)) ELSE y1
  IN [x |-> x2, y |-> y2]

\* ------------------------------------------------------------ graph queries
\* edges.find(ed => ed.target === childId)?.source, NoId for null
getParentId(childId) ==
  LET hit == {i \in DOMAIN edges : edges[i].target = childId}
  IN IF hit = {} THEN NoId
     ELSE edges[CHOOSE i \in hit : \A j \in hit : i <= j].source

\* arr.sort((a, b) => a - b)
RECURSIVE SortAsc(_)
SortAsc(s) ==
  IF s = <<>> THEN <<>>
  ELSE LET rest == SortAsc(SubSeq(s, 1, Len(s) - 1))
           v == s[Len(s)]
           k == Cardinality({i \in DOMAIN rest : rest[i] <= v})
       IN SubSeq(rest, 1, k) \o <<v>> \o SubSeq(rest, k + 1, Len(rest))

getChildrenOf(parentId) ==
  LET IsChild(e) == e.source = parentId
      out == SelectSeq(edges, IsChild)
  IN SortAsc([i \in DOMAIN out |-> out[i].target])

\* The while loop of buildRootPath from cur, up being what it has pushed:
\* [up, ended]: ended is FALSE when the walk meets a node again, where the
\* code's loop never ends.
RECURSIVE WalkUp(_, _)
WalkUp(cur, up) ==
  IF cur = NoId THEN [up |-> up, ended |-> TRUE]
  ELSE IF cur \in Range(up) THEN [up |-> up, ended |-> FALSE]
  ELSE WalkUp(getParentId(cur), Append(up, cur))

Reverse(s) == [i \in DOMAIN s |-> s[Len(s) + 1 - i]]
buildRootPathEnds(startId) == WalkUp(startId, <<>>).ended
buildRootPath(startId) == Reverse(WalkUp(startId, <<>>).up)

\* normAng(atan2(y, x)) in [0, 2 pi): 0 for the upper half turn [0, pi),
\* 1 for [pi, 2 pi); atan2(0, 0) = 0.
HalfTurn(x, y) == IF y > 0 \/ (y = 0 /\ x >= 0) THEN 0 ELSE 1
\* normAng(atan2(ay, ax)) > normAng(atan2(by, bx))
AngleAbove(ax, ay, bx, by) ==
  LET ux == IF ax = 0 /\ ay = 0 THEN 1 ELSE ax
      vx == IF bx = 0 /\ by = 0 THEN 1 ELSE bx
  IN \/ HalfTurn(ax, ay) > HalfTurn(bx, by)
     \/ HalfTurn(ax, ay) = HalfTurn(bx, by) /\ vx * ay - by * ux > 0

\* withAngle.sort((p, q) => q.a - p.a): a stable sort, the larger angle first.
\* s holds [id, x, y] with x, y relative to the parent.
RECURSIVE SortByAngleDesc(_)
SortByAngleDesc(s) ==
  IF s = <<>> THEN <<>>
  ELSE LET rest == SortByAngleDesc(SubSeq(s, 1, Len(s) - 1))
           v == s[Len(s)]
           \* v goes behind every element whose angle is not below its own
           k == Cardinality({i \in DOMAIN rest :
                               ~AngleAbove(v.x, v.y, rest[i].x, rest[i].y)})
       IN SubSeq(rest, 1, k) \o <<v>> \o SubSeq(rest, k + 1, Len(rest))

getSiblingsClockwise(currentId) ==
  LET parentId == getParentId(currentId)
  IN IF parentId = NoId \/ ~HasNode(nodes, parentId) THEN <<>>
     ELSE LET parent == FindNode(nodes, parentId)
              siblings == getChildrenOf(parentId)
              withAngle == [i \in DOMAIN siblings |->
                              LET c == FindNode(nodes, siblings[i])
                              IN [id |-> siblings[i], x |-> c.x - parent.x, y |-> c.y - parent.y]]
              sorted == SortByAngleDesc(withAngle)
          IN [i \in DOMAIN sorted |-> sorted[i].id]

\* ------------------------------------------------------------ history
snapshot ==
  [nodes |-> nodes, edges |-> edges, pan |-> [x |-> pan.x, y |-> pan.y], scale |-> scale,
   selectedId |-> selectedId, selectedIds |-> selectedIds,
   selectedEdgeIds |-> selectedEdgeIds]

\* JSON.parse(JSON.stringify(s)): every object rebuilt from its own keys, a
\* key holding undefined dropped (and read back as Undefined), a finite
\* number kept.
JsonNode(n) ==
  [id |-> n.id, label |-> n.label, x |-> n.x, y |-> n.y, w |-> n.w, h |-> n.h,
   strokeColor |-> n.strokeColor,
   fillColor |-> IF n.fillColor = Undefined THEN Undefined ELSE n.fillColor,
   bold |-> n.bold]
JsonEdge(e) ==
  [id |-> e.id, source |-> e.source, target |-> e.target,
   label |-> e.label,
   dashed |-> IF e.dashed = Undefined THEN Undefined ELSE e.dashed]
\* A clone that loses the edge selection.
cloneNoEdgeSelection(s) ==
  [nodes |-> [i \in DOMAIN s.nodes |-> JsonNode(s.nodes[i])],
   edges |-> [i \in DOMAIN s.edges |-> JsonEdge(s.edges[i])],
   pan |-> [x |-> s.pan.x, y |-> s.pan.y],
   scale |-> s.scale,
   selectedId |-> s.selectedId,
   selectedIds |-> s.selectedIds,
   selectedEdgeIds |-> <<>>]
cloneSnapshot(s) ==
  [nodes |-> [i \in DOMAIN s.nodes |-> JsonNode(s.nodes[i])],
   edges |-> [i \in DOMAIN s.edges |-> JsonEdge(s.edges[i])],
   pan |-> [x |-> s.pan.x, y |-> s.pan.y],
   scale |-> s.scale,
   selectedId |-> s.selectedId,
   selectedIds |-> s.selectedIds,
   selectedEdgeIds |-> s.selectedEdgeIds]

\* No snapshot: scale 0 is no viewport scale.
NoSnap ==
  [nodes |-> <<>>, edges |-> <<>>, pan |-> [x |-> 0, y |-> 0], scale |-> 0,
   selectedId |-> NoId, selectedIds |-> <<>>, selectedEdgeIds |-> <<>>]
NoDrag == [phase |-> "none", nodes |-> <<>>, moved |-> {}, base |-> 0, left |-> FALSE]
NoRun == [start |-> NoId, path |-> <<>>, presses |-> 0]

\* What the history variables record of an input of the given kind: "op" a
\* mutating operation that pushed a snapshot first, "undo", "redo", "tab", "alt",
\* "other";
\* d and r are the drag and the Shift+Tab run it leaves under way.
Record(kind, d, r) ==
  /\ opPre' = (IF kind \in {"op", "char", "link"} THEN snapshot ELSE NoSnap)
  /\ redoDropped' = (IF kind \in {"op", "char", "link"} THEN Len(redoStack) ELSE 0)
  /\ opUndone' = (IF kind = "undo" THEN opPre ELSE NoSnap)
  /\ undoPre' = (IF kind = "undo" THEN snapshot ELSE NoSnap)
  /\ undoRedone' = (IF kind = "redo" THEN undoPre ELSE NoSnap)
  /\ undoPost' = (IF kind = "redo" /\ undoPre # NoSnap THEN snapshot ELSE NoSnap)
  /\ reUndone' = (IF kind = "undo" THEN undoPost ELSE NoSnap)
  /\ dragPre' = d
  /\ tabRun' = r
  /\ tabFrom' = (IF kind = "tab" THEN selectedId ELSE NoId)
  /\ altFrom' = (IF kind = "alt" THEN selectedId ELSE NoId)
  /\ noted' = (IF kind \in {"char", "link"} THEN kind ELSE "none")
  /\ loaded' = loaded
Note(kind) == Record(kind, NoDrag, NoRun)
DragNote(d) == Record("other", d, NoRun)
TabNote(r) == Record("other", NoDrag, r)

\* undoStack.current after pushHistory()
Pushed == Append(undoStack, cloneSnapshot(snapshot))
\* A push that keeps the redo stack.
pushKeepingRedo ==
  /\ undoStack' = Pushed
  /\ UNCHANGED redoStack
pushHistory ==
  /\ undoStack' = Pushed
  /\ redoStack' = <<>>

\* A restore that leaves the selection as it is.
restoreStoreOnly(s) ==
  /\ nodes' = s.nodes
  /\ edges' = s.edges
  /\ pan' = s.pan
  /\ scale' = s.scale
  /\ UNCHANGED <<selectedId, selectedIds, selectedEdgeIds>>

\* restore(s)
restore(s) ==
  /\ nodes' = s.nodes
  /\ edges' = s.edges
  /\ pan' = s.pan
  /\ scale' = s.scale
  /\ selectedId' = s.selectedId
  /\ selectedIds' = Dedupe(s.selectedIds)
  /\ selectedEdgeIds' = Dedupe(s.selectedEdgeIds)

\* ------------------------------------------------------------ store operations
\* The most setTimeout callbacks waiting at once.
MaxTimers == 1
\* The most consecutive Shift+Tab presses followed.
MaxPresses == 4
\* The most nodes where every key and every menu item is tried.
MaxFew == 2
\* The most nodes where nodes are removed.
MaxSome == 3
\* The most snapshots on the undo stack where histories are kept short.
MaxShallow == 2
\* How far from the origin, in world units, a drag may leave a node.
MaxCoord == 200

DefaultLabel ==
  << "T", "y", "p", "e", " ", "t", "o", " ", "c", "h", "a", "n", "g", "e", " ",
     "T", "e", "x", "t" >>

NodeIds(ns) == {ns[i].id : i \in DOMAIN ns}
EdgeIds(es) == {es[i].id : i \in DOMAIN es}

\* An id taken from the number of nodes in the store.
NextNodeIdByCount == Len(nodes) + 1

\* nodes.length ? Math.max(...nodes.map(n => n.id)) + 1 : 1
NextNodeId ==
  IF nodes = <<>> THEN 1
  ELSE (CHOOSE m \in NodeIds(nodes) : \A v \in NodeIds(nodes) : v <= m) + 1

NewNode(id, x, y, stroke, fill) ==
  [id |-> id, label |-> <<>>, x |-> x, y |-> y, w |-> BASE_W, h |-> BASE_H,
   strokeColor |-> stroke, fillColor |-> fill, bold |-> FALSE]
\* An edge drawn the other way round.
NewEdgeReversed(id, a, b) ==
  [id |-> id, source |-> b, target |-> a, label |-> <<>>, dashed |-> Undefined]
NewEdge(id, a, b) ==
  [id |-> id, source |-> a, target |-> b, label |-> <<>>, dashed |-> Undefined]

\* A pending setTimeout(() => bringBoxIntoView(cx, cy, w, h), 0): the box and
\* the pan and scale of the render whose closure the callback holds.
BoxTimer(cx, cy, w, h) ==
  [cx |-> cx, cy |-> cy, w |-> w, h |-> h, pan |-> pan, scale |-> scale]

\* The point the spiral tries at its i-th step.
SpiralPoint(cx, cy, k0, r0, rstep, every, i) ==
  [x |-> cx + SpiralDX(k0 + i, r0 + rstep * (i \div every)),
   y |-> cy + SpiralDY(k0 + i, r0 + rstep * (i \div every))]
\* The first step below limit whose point isPositionFree, limit when none is.
SpiralFirstFree(cx, cy, k0, r0, rstep, every, limit, parentId) ==
  LET ok == {i \in 0..(limit - 1) :
               LET q == SpiralPoint(cx, cy, k0, r0, rstep, every, i)
               IN isPositionFree(q.x, q.y, parentId)}
  IN IF ok = {} THEN limit ELSE CHOOSE i \in ok : \A j \in ok : i <= j

\* addStandalone(at): where the node goes (the given point kept when the 60
\* steps find nothing free).
StandalonePlaceAt(at) ==
  IF isPositionFree(at.x, at.y, NoId) THEN at
  ELSE LET i == SpiralFirstFree(at.x, at.y, 0, 12, 12, 6, 60, NoId)
       IN IF i = 60 THEN at ELSE SpiralPoint(at.x, at.y, 0, 12, 12, 6, i)
\* addStandalone(): from the world point at the middle of the surface.
StandalonePlaceCentre ==
  LET c == toWorld(ViewW \div 2, ViewH \div 2)
      i == SpiralFirstFree(c.x, c.y, 0, 0, 24, 6, 120, NoId)
  IN IF i = 120 THEN c ELSE SpiralPoint(c.x, c.y, 0, 0, 24, 6, i)

\* An addStandalone that adds nothing when its search finds no free point.
addStandaloneIfFree(useAt, at) ==
  LET c == toWorld(ViewW \div 2, ViewH \div 2)
      none == IF useAt
              THEN /\ ~isPositionFree(at.x, at.y, NoId)
                   /\ SpiralFirstFree(at.x, at.y, 0, 12, 12, 6, 60, NoId) = 60
              ELSE SpiralFirstFree(c.x, c.y, 0, 0, 24, 6, 120, NoId) = 120
      q == IF useAt THEN StandalonePlaceAt(at) ELSE StandalonePlaceCentre
  IN [newId |-> NextNodeId,
      nodes |-> IF none THEN nodes
                ELSE Append(nodes, NewNode(NextNodeId, q.x, q.y, "#333", Undefined)),
      edges |-> edges,
      timer |-> BoxTimer(q.x, q.y, BASE_W, BASE_H),
      pushed |-> TRUE]

\* addStandalone(at?) apart from its pushHistory(): [newId, nodes, timer].
\* useAt = FALSE is the call without an argument.
addStandalone(useAt, at) ==
  LET q == IF useAt THEN StandalonePlaceAt(at) ELSE StandalonePlaceCentre
  IN [newId |-> NextNodeId,
      nodes |-> Append(nodes, NewNode(NextNodeId, q.x, q.y, "#333", Undefined)),
      edges |-> edges,
      timer |-> BoxTimer(q.x, q.y, BASE_W, BASE_H),
      pushed |-> TRUE]

\* addChild(parentId): the 96-step search keeps the last point tried.
ChildPlace(parent) ==
  LET k0 == Len(getChildrenOf(parent.id))
      f == SpiralFirstFree(parent.x, parent.y, k0, CHILD_RADIUS, 24, 8, 96, parent.id)
  IN SpiralPoint(parent.x, parent.y, k0, CHILD_RADIUS, 24, 8, IF f = 96 THEN 95 ELSE f)

\* addChild(parentId) apart from its pushHistory(); t is Date.now().
addChild(parentId, t) ==
  IF ~HasNode(nodes, parentId)
  THEN [newId |-> parentId, nodes |-> nodes, edges |-> edges,
        timer |-> BoxTimer(0, 0, 0, 0), pushed |-> FALSE]
  ELSE LET parent == FindNode(nodes, parentId)
           q == ChildPlace(parent)
       IN [newId |-> NextNodeId,
           nodes |-> Append(nodes, NewNode(NextNodeId, q.x, q.y,
                                           parent.strokeColor, parent.fillColor)),
           edges |-> Append(edges, NewEdge(t, parentId, NextNodeId)),
           timer |-> BoxTimer(q.x, q.y, BASE_W, BASE_H),
           pushed |-> TRUE]

addSiblingOf(nodeId, t) ==
  IF getParentId(nodeId) # NoId THEN addChild(getParentId(nodeId), t)
  ELSE addStandalone(FALSE, [x |-> 0, y |-> 0])

\* A removal that keeps the edges coming into a removed node.
removeNodesKeepingInEdges(ids) ==
  LET del == Range(ids)
      parent == getParentId(ids[1])
      nextSelection == IF Len(ids) = 1 /\ parent # NoId /\ parent \notin del
                       THEN parent ELSE NoId
      Kept(n) == n.id \notin del
      Clear(e) == e.source \notin del
  IN [nodes |-> SelectSeq(nodes, Kept),
      edges |-> SelectSeq(edges, Clear),
      nextSelection |-> nextSelection,
      timed |-> FALSE,
      timer |-> BoxTimer(0, 0, 0, 0)]
\* A removal that never moves the selection to the parent.
removeNodesClearing(ids) ==
  LET del == Range(ids)
      Kept(n) == n.id \notin del
      Clear(e) == e.source \notin del /\ e.target \notin del
  IN [nodes |-> SelectSeq(nodes, Kept),
      edges |-> SelectSeq(edges, Clear),
      nextSelection |-> NoId,
      timed |-> FALSE,
      timer |-> BoxTimer(0, 0, 0, 0)]

\* removeNodes(ids), ids not empty, apart from its pushHistory():
\* [nodes, edges, nextSelection, timer].
removeNodes(ids) ==
  LET del == Range(ids)
      parent == getParentId(ids[1])
      nextSelection == IF Len(ids) = 1 /\ parent # NoId /\ parent \notin del
                       THEN parent ELSE NoId
      Kept(n) == n.id \notin del
      Clear(e) == e.source \notin del /\ e.target \notin del
  IN [nodes |-> SelectSeq(nodes, Kept),
      edges |-> SelectSeq(edges, Clear),
      nextSelection |-> nextSelection,
      timed |-> nextSelection # NoId /\ HasNode(nodes, nextSelection),
      timer |-> IF nextSelection # NoId /\ HasNode(nodes, nextSelection)
                THEN LET n == FindNode(nodes, nextSelection)
                     IN BoxTimer(n.x, n.y, n.w, n.h)
                ELSE BoxTimer(0, 0, 0, 0)]

\* removeEdges(ids): the edges left.
removeEdges(ids) ==
  LET Kept(e) == e.id \notin Range(ids)
  IN SelectSeq(edges, Kept)

\* ensureEdge(a, b): the edges after it; t is Date.now().
ensureEdge(a, b, t) ==
  IF a = b THEN edges
  ELSE IF \E i \in DOMAIN edges :
            \/ edges[i].source = a /\ edges[i].target = b
            \/ edges[i].source = b /\ edges[i].target = a
       THEN edges
       ELSE Append(edges, NewEdge(t, a, b))

\* ------------------------------------------------------------ selection
selectOnly(id) ==
  /\ shiftTabPath' = <<>>
  /\ shiftTabIndex' = 0
  /\ selectedId' = id
  /\ selectedIds' = <<id>>
  /\ selectedEdgeIds' = <<>>
  /\ freshTyping' = TRUE

clearSelection ==
  /\ selectedId' = NoId
  /\ selectedIds' = <<>>
  /\ selectedEdgeIds' = <<>>
  /\ freshTyping' = TRUE

selectFromArray(ids) ==
  /\ selectedId' = (IF ids = <<>> THEN NoId ELSE ids[1])
  /\ selectedIds' = Dedupe(ids)
  /\ selectedEdgeIds' = <<>>
  /\ freshTyping' = TRUE

\* ------------------------------------------------------------ keyboard
gestureVars == <<dragVars, panVars, touchVars, marquee, linking>>

\* The keydown handler's first lines: no inline edit open, no input focused.
KeyboardOpen == editingId = NoId

Last(s) == s[Len(s)]
Front(s) == SubSeq(s, 1, Len(s) - 1)

\* What an add operation (the record addChild, addSiblingOf or addStandalone
\* returns) leaves in the store, the history, the timers and the clock.
ApplyAdd(r, t) ==
  /\ nodes' = r.nodes
  /\ edges' = r.edges
  /\ IF r.pushed
     THEN /\ Len(undoStack) < MaxUndo
          /\ Len(nodes) < MaxNodes
          /\ Len(timers) < MaxTimers
          /\ pushHistory
          /\ timers' = Append(timers, r.timer)
     ELSE UNCHANGED <<histVars, timers>>

\* What removeNodes(ids) leaves, ids not empty.
ApplyRemoveNodes(ids) ==
  LET r == removeNodes(ids)
  IN /\ Len(undoStack) < MaxUndo
     /\ pushHistory
     /\ nodes' = r.nodes
     /\ edges' = r.edges
     /\ IF r.nextSelection # NoId
        THEN /\ selectedId' = r.nextSelection
             /\ selectedIds' = <<r.nextSelection>>
             /\ selectedEdgeIds' = <<>>
             /\ UNCHANGED freshTyping
             /\ IF r.timed
                THEN Len(timers) < MaxTimers /\ timers' = Append(timers, r.timer)
                ELSE UNCHANGED timers
        ELSE clearSelection /\ UNCHANGED timers

\* What removeEdges(ids) leaves, ids not empty.
ApplyRemoveEdges(ids) ==
  /\ Len(undoStack) < MaxUndo
  /\ pushHistory
  /\ edges' = removeEdges(ids)
  /\ selectedEdgeIds' = <<>>
  /\ UNCHANGED <<nodes, selectedId, selectedIds, freshTyping, timers>>

\* Ctrl/Meta+Z: undo()
KeyUndo ==
  /\ KeyboardOpen
  /\ IF undoStack = <<>>
     THEN UNCHANGED <<storeVars, selVars, viewVars, histVars>> /\ Note("other")
     ELSE /\ undoStack' = Front(undoStack)
          /\ redoStack' = Append(redoStack, cloneSnapshot(snapshot))
          /\ restore(Last(undoStack))
          /\ Note("undo")
  /\ UNCHANGED <<navVars, gestureVars, editVars, freshTyping, contextMenu, timers>>

\* Ctrl/Meta+Y, Ctrl/Meta+Shift+Z: redo()
KeyRedo ==
  /\ KeyboardOpen
  /\ IF redoStack = <<>>
     THEN UNCHANGED <<storeVars, selVars, viewVars, histVars>> /\ Note("other")
     ELSE /\ redoStack' = Front(redoStack)
          /\ undoStack' = Append(undoStack, cloneSnapshot(snapshot))
          /\ restore(Last(redoStack))
          /\ Note("redo")
  /\ UNCHANGED <<navVars, gestureVars, editVars, freshTyping, contextMenu, timers>>

\* Enter; t is Date.now()
KeyEnter(t) ==
  /\ KeyboardOpen
  /\ selectedId # NoId /\ Len(selectedIds) = 1
  /\ LET r == addChild(selectedId, t)
     IN /\ ApplyAdd(r, t)
        /\ selectOnly(r.newId)
        /\ Note(IF r.pushed THEN "op" ELSE "other")
  /\ UNCHANGED <<viewVars, gestureVars, editVars, contextMenu>>

\* Shift+Enter
KeyShiftEnter(t) ==
  /\ KeyboardOpen
  /\ selectedId # NoId /\ Len(selectedIds) = 1
  /\ LET r == addSiblingOf(selectedId, t)
     IN /\ ApplyAdd(r, t)
        /\ selectOnly(r.newId)
        /\ Note(IF r.pushed THEN "op" ELSE "other")
  /\ UNCHANGED <<viewVars, gestureVars, editVars, contextMenu>>

\* Escape
KeyEscape ==
  /\ KeyboardOpen
  /\ clearSelection
  /\ Note("other")
  /\ UNCHANGED <<storeVars, viewVars, histVars, navVars, gestureVars, editVars,
                 contextMenu, timers>>

\* Shift+Backspace: the selected nodes, else the selected edges
KeyShiftBackspace ==
  /\ KeyboardOpen
  /\ IF selectedIds # <<>> THEN ApplyRemoveNodes(selectedIds)
     ELSE selectedEdgeIds # <<>> /\ ApplyRemoveEdges(selectedEdgeIds)
  /\ Note("op")
  /\ UNCHANGED <<viewVars, navVars, gestureVars, editVars, contextMenu>>

\* Backspace: several nodes are removed, one node loses its last character
KeyBackspace ==
  /\ KeyboardOpen
  /\ selectedIds # <<>>
  /\ IF Len(selectedIds) > 1 THEN ApplyRemoveNodes(selectedIds)
     ELSE /\ Len(undoStack) < MaxUndo
          /\ pushHistory
          /\ nodes' = [i \in DOMAIN nodes |->
               IF nodes[i].id # selectedIds[1] THEN nodes[i]
               ELSE resizeNodeForLabel(
                      [nodes[i] EXCEPT !.label =
                         SubSeq(nodes[i].label, 1, Max2(0, Len(nodes[i].label) - 1))])]
          /\ UNCHANGED <<edges, selVars, freshTyping, timers>>
  /\ Note("op")
  /\ UNCHANGED <<viewVars, navVars, gestureVars, editVars, contextMenu>>

\* A printable key without ctrl, meta or alt
KeyChar(char) ==
  /\ KeyboardOpen
  /\ selectedEdgeIds # <<>> \/ selectedIds # <<>>
  /\ Len(undoStack) < MaxUndo
  /\ pushHistory
  /\ IF selectedEdgeIds # <<>>
     THEN /\ edges' = [i \in DOMAIN edges |->
               IF edges[i].id \notin Range(selectedEdgeIds) THEN edges[i]
               ELSE [edges[i] EXCEPT !.label =
                       IF freshTyping THEN <<char>> ELSE Append(edges[i].label, char)]]
          /\ UNCHANGED nodes
     ELSE /\ nodes' = [i \in DOMAIN nodes |->
               IF nodes[i].id \notin Range(selectedIds) THEN nodes[i]
               ELSE resizeNodeForLabel(
                      [nodes[i] EXCEPT !.label =
                         IF freshTyping THEN <<char>> ELSE Append(nodes[i].label, char)])]
          /\ UNCHANGED edges
  /\ freshTyping' = FALSE
  /\ Note("char")
  /\ UNCHANGED <<selVars, viewVars, navVars, gestureVars, editVars, contextMenu, timers>>

\* Shift+'+' / Shift+'='
KeyGrow ==
  /\ KeyboardOpen
  /\ selectedIds # <<>>
  /\ Len(undoStack) < MaxUndo
  /\ pushHistory
  /\ nodes' = [i \in DOMAIN nodes |->
       IF nodes[i].id \notin Range(selectedIds) THEN nodes[i]
       ELSE [nodes[i] EXCEPT !.w = Min2(420, RoundDiv(12 * nodes[i].w, 10)),
                             !.h = Min2(240, RoundUp115(nodes[i].h))]]
  /\ Note("op")
  /\ UNCHANGED <<edges, selVars, viewVars, navVars, gestureVars, editVars, freshTyping,
                 contextMenu, timers>>

\* A shrink with no floor.
KeyShrinkFree ==
  /\ KeyboardOpen
  /\ selectedIds # <<>>
  /\ Len(undoStack) < MaxUndo
  /\ pushHistory
  /\ nodes' = [i \in DOMAIN nodes |->
       IF nodes[i].id \notin Range(selectedIds) THEN nodes[i]
       ELSE [nodes[i] EXCEPT !.w = RoundDiv(10 * nodes[i].w, 12),
                             !.h = RoundDiv(100 * nodes[i].h, 115)]]
  /\ Note("op")
  /\ UNCHANGED <<edges, selVars, viewVars, navVars, gestureVars, editVars, freshTyping,
                 contextMenu, timers>>

\* Shift+'-' / Shift+'_'
KeyShrink ==
  /\ KeyboardOpen
  /\ selectedIds # <<>>
  /\ Len(undoStack) < MaxUndo
  /\ pushHistory
  /\ nodes' = [i \in DOMAIN nodes |->
       IF nodes[i].id \notin Range(selectedIds) THEN nodes[i]
       ELSE [nodes[i] EXCEPT !.w = Max2(80, RoundDiv(10 * nodes[i].w, 12)),
                             !.h = Max2(48, RoundDiv(100 * nodes[i].h, 115))]]
  /\ Note("op")
  /\ UNCHANGED <<edges, selVars, viewVars, navVars, gestureVars, editVars, freshTyping,
                 contextMenu, timers>>

\* Shift+Tab.  selectOnly(nextId) runs last and clears the remembered path.
\* The handler does not return when buildRootPath walks a cycle.
KeyShiftTab ==
  /\ KeyboardOpen
  /\ selectedId # NoId /\ Len(selectedIds) = 1
  /\ LET fresh == shiftTabPath = <<>> \/ selectedId \notin Range(shiftTabPath)
     IN /\ fresh => buildRootPathEnds(selectedId)
        /\ LET path == IF fresh THEN buildRootPath(selectedId) ELSE shiftTabPath
               at == IF fresh THEN Len(path) - 1 ELSE shiftTabIndex
               idx == IF at > 0 THEN at - 1 ELSE at + 1
           IN IF at > 0 \/ at < Len(path) - 1
              THEN /\ selectOnly(path[idx + 1])
                   /\ pan' = (IF HasNode(nodes, path[idx + 1])
                              THEN LET n == FindNode(nodes, path[idx + 1])
                                   IN bringPan(pan, scale, n.x, n.y, n.w, n.h)
                              ELSE pan)
              ELSE /\ shiftTabPath' = path
                   /\ shiftTabIndex' = at
                   /\ UNCHANGED <<selVars, freshTyping, pan>>
  /\ tabRun.presses < MaxPresses
  /\ TabNote(IF tabRun.presses = 0
             THEN [start |-> selectedId, path |-> buildRootPath(selectedId), presses |-> 1]
             ELSE [tabRun EXCEPT !.presses = @ + 1])
  /\ UNCHANGED <<storeVars, scale, histVars, gestureVars, editVars, contextMenu, timers>>

\* getSiblingsClockwise reads c.y of a sibling that is no node: a TypeError.
SiblingsThrow(currentId) ==
  LET parentId == getParentId(currentId)
  IN /\ parentId # NoId
     /\ HasNode(nodes, parentId)
     /\ \E i \in DOMAIN edges : edges[i].source = parentId /\ ~HasNode(nodes, edges[i].target)

\* A Tab that steps to the sibling before, not after.
TabTargetBackwards(currentId) ==
  LET order == getSiblingsClockwise(currentId)
  IN IF Len(order) <= 1 THEN currentId
     ELSE order[((IndexOf(order, currentId) - 1 + Len(order) - 1) % Len(order)) + 1]

\* The node Tab moves to from currentId; currentId itself when Tab does nothing.
TabTarget(currentId) ==
  LET order == getSiblingsClockwise(currentId)
  IN IF Len(order) <= 1 THEN currentId
     ELSE order[((IndexOf(order, currentId) - 1 + 1) % Len(order)) + 1]

\* The branch for Tab without shift; kind tells the key apart for the
\* history variables.
TabBranch(kind) ==
  /\ KeyboardOpen
  /\ selectedId # NoId /\ Len(selectedIds) = 1
  /\ ~SiblingsThrow(selectedId)
  /\ IF Len(getSiblingsClockwise(selectedId)) <= 1
     THEN UNCHANGED <<selVars, navVars, freshTyping, pan>>
     ELSE LET nextId == TabTarget(selectedId)
              n == FindNode(nodes, nextId)
          IN /\ selectOnly(nextId)
             /\ pan' = bringPan(pan, scale, n.x, n.y, n.w, n.h)
  /\ Note(kind)
  /\ UNCHANGED <<storeVars, scale, histVars, gestureVars, editVars, contextMenu, timers>>

\* Tab without shift and without alt or meta.
KeyTab == TabBranch("tab")

\* Alt+Tab or Meta+Tab, without shift, with one node selected.  The handler
\* reaches the branch for Tab without shift first, which tests only the key
\* and the shift flag and returns: the Alt/Meta+Tab branch below it never
\* runs.
KeyAltTab == TabBranch("alt")

\* The sign of a / b - c / d for a, c >= 0 and b, d > 0, by the continued
\* fractions of the two, so that no product leaves 32 bits.
RECURSIVE FracCmp(_, _, _, _)
FracCmp(a, b, c, d) ==
  IF a \div b # c \div d THEN (IF a \div b > c \div d THEN 1 ELSE -1)
  ELSE IF a % b = 0 /\ c % d = 0 THEN 0
  ELSE IF a % b = 0 THEN -1
  ELSE IF c % d = 0 THEN 1
  ELSE -FracCmp(b, a % b, d, c % d)

ArrowKeys == {"ArrowUp", "ArrowDown", "ArrowLeft", "ArrowRight"}
\* dir of the arrow handler
ArrowDir(key) ==
  IF key = "ArrowUp" THEN [x |-> 0, y |-> -1]
  ELSE IF key = "ArrowDown" THEN [x |-> 0, y |-> 1]
  ELSE IF key = "ArrowLeft" THEN [x |-> -1, y |-> 0]
  ELSE [x |-> 1, y |-> 0]
\* vx, vy, dist and dot are NaN when a coordinate of n or of cur is NaN.
ArrowNaN(cur, n) == NaN \in {cur.x, cur.y, n.x, n.y}
ArrowDot(cur, n, key) ==
  (n.x - cur.x) * ArrowDir(key).x + (n.y - cur.y) * ArrowDir(key).y
ArrowDist2(cur, n) ==
  (n.x - cur.x) * (n.x - cur.x) + (n.y - cur.y) * (n.y - cur.y)
\* score(n) > score(m) for two nodes with dot > 0, score = cos + 0.0001 / dist:
\* the greater cosine, and with equal cosines the smaller distance.
ArrowBetter(cur, n, m, key) ==
  LET c == FracCmp(ArrowDot(cur, n, key) * ArrowDot(cur, n, key), ArrowDist2(cur, n),
                   ArrowDot(cur, m, key) * ArrowDot(cur, m, key), ArrowDist2(cur, m))
  IN IF c # 0 THEN c = 1 ELSE ArrowDist2(cur, n) < ArrowDist2(cur, m)
\* The loop over the nodes from the i-th on; best is the index of the best
\* node so far, 0 for null.  A NaN never makes `dist === 0` or `dot <= 0`
\* true, and `score > best.score` is false when either score is NaN.
RECURSIVE ArrowScan(_, _, _, _)
ArrowScan(cur, i, best, key) ==
  IF i > Len(nodes) THEN best
  ELSE LET n == nodes[i]
           skip == \/ n.id = selectedId
                   \/ /\ ~ArrowNaN(cur, n)
                      /\ (ArrowDist2(cur, n) = 0 \/ ArrowDot(cur, n, key) <= 0)
           takes == \/ best = 0
                    \/ /\ ~ArrowNaN(cur, n)
                       /\ ~ArrowNaN(cur, nodes[best])
                       /\ ArrowBetter(cur, n, nodes[best], key)
       IN ArrowScan(cur, i + 1, IF ~skip /\ takes THEN i ELSE best, key)

\* ArrowUp, ArrowDown, ArrowLeft, ArrowRight
KeyArrow(key) ==
  /\ KeyboardOpen
  /\ selectedId # NoId
  /\ LET best == IF HasNode(nodes, selectedId)
                 THEN ArrowScan(FindNode(nodes, selectedId), 1, 0, key) ELSE 0
     IN IF best # 0
        THEN LET n == FindNode(nodes, nodes[best].id)
                 np == bringPan(pan, scale, n.x, n.y, n.w, n.h)
             IN /\ selectOnly(nodes[best].id)
                /\ pan' = (IF NaN \in {n.x, n.y} THEN pan ELSE np)
        ELSE UNCHANGED <<selVars, navVars, freshTyping, pan>>
  /\ Note("other")
  /\ UNCHANGED <<storeVars, scale, histVars, gestureVars, editVars, contextMenu, timers>>

\* ------------------------------------------------------------ pointer
\* The node drawn on top at a world point (the last in store order), NoId
\* over empty canvas.
TopNodeAt(x, y) ==
  LET hit == {i \in DOMAIN nodes : isPointInNode(nodes[i], x, y)}
  IN IF hit = {} THEN NoId
     ELSE nodes[CHOOSE i \in hit : \A j \in hit : i >= j].id

\* The client point over a node's centre.
ScreenOf(n) == toScreenWith(pan, scale, n.x, n.y)

IdleLinking == [phase |-> "idle", sourceId |-> NoId, x |-> 0, y |-> 0, startX |-> 0, startY |-> 0]
NoMarquee == [active |-> FALSE, x1 |-> 0, y1 |-> 0, x2 |-> 0, y2 |-> 0]
NoPinch == [set |-> FALSE, d2 |-> 0, scale |-> 0, panX |-> 0, panY |-> 0, cx2 |-> 0, cy2 |-> 0]

\* activeTouches.set(pointerId, point)
TouchSet(touches, pid, c) ==
  {t \in touches : t.id # pid} \cup {[id |-> pid, x |-> c.x, y |-> c.y]}

\* getCentroidAndDistance(points) for the two touches: the centroid doubled
\* and the distance squared.
PinchOf(touches) ==
  LET a == CHOOSE t \in touches : \A u \in touches : t.id <= u.id
      b == CHOOSE t \in touches : t.id # a.id
  IN [cx2 |-> a.x + b.x, cy2 |-> a.y + b.y,
      d2 |-> (b.x - a.x) * (b.x - a.x) + (b.y - a.y) * (b.y - a.y)]

\* onPointerDownSvg(e)
onPointerDownSvg(pid, c) ==
  LET touches == TouchSet(activeTouches, pid, c)
  IN /\ activeTouches' = touches
     /\ pinchStart' = (IF Cardinality(touches) = 2
                       THEN [set |-> TRUE, d2 |-> PinchOf(touches).d2, scale |-> scale,
                             panX |-> pan.x, panY |-> pan.y,
                             cx2 |-> PinchOf(touches).cx2, cy2 |-> PinchOf(touches).cy2]
                       ELSE pinchStart)
     /\ panning' = (Cardinality(touches) < 2)
     /\ panStart' = c
     /\ panAtStart' = pan

\* onPointerDownNode reads n.x of a selected id that is no node: a TypeError.
GroupStartThrows == \E i \in DOMAIN selectedIds : ~HasNode(nodes, selectedIds[i])

\* Pointer-down on node id at the client point over its centre: shift is
\* e.shiftKey, t is Date.now().  onPointerDownNode runs, and onPointerDownSvg
\* after it unless the shift branch stopped the event.
PointerDownNode(id, shift, pid, t) ==
  LET n == FindNode(nodes, id)
      c == ScreenOf(n)
      p == toWorld(c.x, c.y)
  IN
  /\ HasNode(nodes, id)
  /\ TopNodeAt(p.x, p.y) = id
  /\ IF editingId # NoId
     THEN /\ onPointerDownSvg(pid, c)
          /\ Note("other")
          /\ UNCHANGED <<storeVars, selVars, histVars, navVars, dragVars, linking,
                         freshTyping>>
     ELSE IF shift
     THEN /\ UNCHANGED <<nodes, dragVars, panVars, touchVars>>
          /\ selectOnly(id)
          /\ IF selectedId # NoId /\ selectedId # id
             THEN /\ Len(undoStack) < MaxUndo
                  /\ pushHistory
                  /\ edges' = ensureEdge(selectedId, id, t)
                  /\ Note("op")
                  /\ UNCHANGED linking
             ELSE /\ linking' = [phase |-> "pending", sourceId |-> id, x |-> n.x, y |-> n.y,
                                 startX |-> n.x, startY |-> n.y]
                  /\ Note("other")
                  /\ UNCHANGED <<edges, histVars>>
     ELSE IF linking.phase # "idle"
     THEN /\ onPointerDownSvg(pid, c)
          /\ Note("other")
          /\ UNCHANGED <<storeVars, selVars, histVars, navVars, dragVars, linking,
                         freshTyping>>
     ELSE /\ onPointerDownSvg(pid, c)
          /\ IF id \in Range(selectedIds)
             THEN freshTyping' = TRUE /\ UNCHANGED <<selVars, navVars>>
             ELSE selectOnly(id)
          /\ IF Len(selectedIds) > 1
             THEN /\ ~GroupStartThrows
                  /\ groupDragging' = TRUE
                  /\ groupStart' = p
                  /\ groupStartPositions' =
                       [i \in DOMAIN selectedIds |->
                          [id |-> selectedIds[i],
                           x |-> FindNode(nodes, selectedIds[i]).x,
                           y |-> FindNode(nodes, selectedIds[i]).y]]
                  /\ UNCHANGED <<draggingNodeId, dragOffset, somethingMoved>>
             ELSE /\ draggingNodeId' = id
                  /\ dragOffset' = [dx |-> n.x - p.x, dy |-> n.y - p.y]
                  /\ somethingMoved' = FALSE
                  /\ UNCHANGED <<groupDragging, groupStart, groupStartPositions>>
          /\ DragNote([phase |-> "down", nodes |-> nodes, moved |-> {},
                    base |-> Len(undoStack), left |-> FALSE])
          /\ UNCHANGED <<storeVars, histVars, linking>>
  /\ UNCHANGED <<viewVars, marquee, editVars, contextMenu, timers>>

\* Whether the world point lies on the background: on no node, and away
\* from every drawn edge.
OnBackground(x, y) ==
  /\ TopNodeAt(x, y) = NoId
  /\ \A i \in DOMAIN edges :
       (HasNode(nodes, edges[i].source) /\ HasNode(nodes, edges[i].target)) =>
         LET a == FindNode(nodes, edges[i].source)
             b == FindNode(nodes, edges[i].target)
         IN ~SegCloserThan66(x, y, a.x, a.y, b.x, b.y)

\* Pointer-down on the background rect at client point c: onPointerDownBg,
\* then onPointerDownSvg, which the event reaches next.
PointerDownBg(shift, pid, c) ==
  LET p == toWorld(c.x, c.y)
  IN
  /\ OnBackground(p.x, p.y)
  /\ editingId' = NoId
  /\ onPointerDownSvg(pid, c)
  /\ IF linking.phase # "idle"
     THEN UNCHANGED <<selVars, freshTyping, marquee>>
     ELSE IF shift
     THEN /\ marquee' = [active |-> TRUE, x1 |-> p.x, y1 |-> p.y, x2 |-> p.x, y2 |-> p.y]
          /\ UNCHANGED <<selVars, freshTyping>>
     ELSE clearSelection /\ UNCHANGED marquee
  /\ Note("other")
  /\ UNCHANGED <<storeVars, viewVars, histVars, navVars, dragVars, linking, editingText,
                 contextMenu, timers>>

\* Whether edge e is drawn with a part no node covers: both ends are nodes,
\* and the middle of the line is on no node.
EdgeShown(e) ==
  /\ HasNode(nodes, e.source) /\ HasNode(nodes, e.target)
  /\ LET a == FindNode(nodes, e.source)
         b == FindNode(nodes, e.target)
     IN TopNodeAt((a.x + b.x) \div 2, (a.y + b.y) \div 2) = NoId

\* Add or drop id in a Set kept in insertion order
Toggle(s, id) ==
  IF id \in Range(s) THEN SelectSeq(s, LAMBDA v : v # id) ELSE Append(s, id)

\* onEdgePointerDown on the i-th edge drawn
\* An edge click that left the node selection as it was.
EdgePointerDownKeep(i, shift) ==
  /\ i \in DOMAIN edges
  /\ EdgeShown(edges[i])
  /\ selectedEdgeIds' = (IF shift THEN Toggle(selectedEdgeIds, edges[i].id)
                         ELSE <<edges[i].id>>)
  /\ freshTyping' = TRUE
  /\ Note("other")
  /\ UNCHANGED <<storeVars, selectedId, selectedIds, viewVars, histVars, navVars,
                 gestureVars, editVars, contextMenu, timers>>

EdgePointerDown(i, shift) ==
  /\ i \in DOMAIN edges
  /\ EdgeShown(edges[i])
  /\ selectedIds' = <<>>
  /\ selectedId' = NoId
  /\ selectedEdgeIds' = (IF shift THEN Toggle(selectedEdgeIds, edges[i].id)
                         ELSE <<edges[i].id>>)
  /\ freshTyping' = TRUE
  /\ Note("other")
  /\ UNCHANGED <<storeVars, viewVars, histVars, navVars, gestureVars, editVars,
                 contextMenu, timers>>

\* The group-drag updater reads posMap.get(id).x of a selected node whose
\* start position was not captured: a TypeError.
GroupMoveThrows ==
  LET captured == {groupStartPositions[i].id : i \in DOMAIN groupStartPositions}
  IN \E i \in DOMAIN nodes :
       nodes[i].id \in Range(selectedIds) /\ nodes[i].id \notin captured

\* posMap.get(id): the last entry captured for id
StartOf(id) ==
  groupStartPositions[CHOOSE i \in DOMAIN groupStartPositions :
                        /\ groupStartPositions[i].id = id
                        /\ \A j \in DOMAIN groupStartPositions :
                             groupStartPositions[j].id = id => j <= i]

\* Math.hypot(dx, dy) > DRAG_THRESHOLD / scale, from the distance squared
BeyondThreshold(d2) ==
  d2 > 2844 \/ d2 * scale * scale > DRAG_THRESHOLD * DRAG_THRESHOLD * 10000

\* Two pointers are down and a pinch has started.
Pinching(touches) == Cardinality(touches) = 2 /\ pinchStart.set

\* Math.hypot(dx, dy) from the distance squared, to the whole pixel below
\* (exact for two touches on one horizontal or vertical line).
Hypot(d2) == CHOOSE r \in 0..(ViewW + ViewH) : r * r <= d2 /\ d2 < (r + 1) * (r + 1)

\* clamp(s0 * (d / d0), 0.3, 3) in percent.  d0 = 0 makes the quotient
\* Infinity, which clamps to 3, or with d = 0 as well NaN, which Math.min and
\* Math.max hand through.
PinchScale(s0, d, d0) ==
  IF d0 = 0 THEN (IF d = 0 THEN NaN ELSE 300)
  ELSE clamp(RoundDiv(s0 * d, d0), 30, 300)

\* onPointerMoveSvg with the pointer at client point c
PointerMove(pid, c) ==
  LET p == toWorld(c.x, c.y)
      down == \E t \in activeTouches : t.id = pid
      touches == IF down THEN TouchSet(activeTouches, pid, c) ELSE activeTouches
      pinch == down /\ Pinching(touches)
      g == PinchOf(touches)
      s == PinchScale(pinchStart.scale, Hypot(g.d2), Hypot(pinchStart.d2))
  IN
  /\ activeTouches' = touches
  /\ scale' = (IF pinch THEN s ELSE scale)
  /\ IF pinch
     THEN /\ pan' = (IF s = NaN THEN [x |-> NaN, y |-> NaN]
                     ELSE [x |-> RoundDiv(g.cx2 * pinchStart.scale
                                          - (pinchStart.cx2 - 2 * pinchStart.panX) * s,
                                          2 * pinchStart.scale),
                           y |-> RoundDiv(g.cy2 * pinchStart.scale
                                          - (pinchStart.cy2 - 2 * pinchStart.panY) * s,
                                          2 * pinchStart.scale)])
          /\ Note("other")
          /\ UNCHANGED <<nodes, marquee, linking, somethingMoved>>
     ELSE IF marquee.active
     THEN /\ marquee' = [marquee EXCEPT !.x2 = p.x, !.y2 = p.y]
          /\ Note("other")
          /\ UNCHANGED <<nodes, linking, somethingMoved, pan>>
     ELSE IF linking.phase \in {"pending", "active"}
     THEN /\ linking' =
               (IF linking.phase = "active"
                   \/ BeyondThreshold((p.x - linking.startX) * (p.x - linking.startX)
                                      + (p.y - linking.startY) * (p.y - linking.startY))
                THEN [linking EXCEPT !.phase = "active", !.x = p.x, !.y = p.y]
                ELSE linking)
          /\ Note("other")
          /\ UNCHANGED <<nodes, marquee, somethingMoved, pan>>
     ELSE IF groupDragging
     THEN /\ ~GroupMoveThrows
          /\ somethingMoved' = TRUE
          /\ nodes' = [i \in DOMAIN nodes |->
               IF nodes[i].id \in Range(selectedIds)
               THEN [nodes[i] EXCEPT !.x = StartOf(nodes[i].id).x + (p.x - groupStart.x),
                                     !.y = StartOf(nodes[i].id).y + (p.y - groupStart.y)]
               ELSE nodes[i]]
          /\ DragNote(IF dragPre.phase = "none" THEN NoDrag
                      ELSE [dragPre EXCEPT !.phase = "moved",
                              !.moved = @ \cup (Range(selectedIds) \cap NodeIds(nodes))])
          /\ UNCHANGED <<marquee, linking, pan>>
     ELSE IF draggingNodeId # NoId
     THEN /\ somethingMoved' = TRUE
          /\ nodes' = [i \in DOMAIN nodes |->
               IF nodes[i].id = draggingNodeId
               THEN [nodes[i] EXCEPT !.x = p.x + dragOffset.dx, !.y = p.y + dragOffset.dy]
               ELSE nodes[i]]
          /\ DragNote(IF dragPre.phase = "none" THEN NoDrag
                      ELSE [dragPre EXCEPT !.phase = "moved",
                              !.moved = @ \cup ({draggingNodeId} \cap NodeIds(nodes))])
          /\ UNCHANGED <<marquee, linking, pan>>
     ELSE /\ pan' = (IF panning
                     THEN [x |-> panAtStart.x + (c.x - panStart.x),
                           y |-> panAtStart.y + (c.y - panStart.y)]
                     ELSE pan)
          /\ Note("other")
          /\ UNCHANGED <<nodes, marquee, linking, somethingMoved>>
  /\ UNCHANGED <<edges, selVars, histVars, navVars, draggingNodeId, dragOffset,
                 groupDragging, groupStart, groupStartPositions, panVars, pinchStart,
                 editVars, freshTyping, contextMenu, timers>>

\* Math.exp(-deltaY * 0.0015) in thousandths, for the wheel steps tried
WheelFactor(deltaY) ==
  IF deltaY = 1000 THEN 223
  ELSE IF deltaY = -1000 THEN 4482
  ELSE 1000

\* onWheelSvg(e) with the mouse at client point c: a zoom about the mouse,
\* or with shift a scroll of the pan
Wheel(shift, c, deltaX, deltaY) ==
  LET newScale == clamp(RoundDiv(scale * WheelFactor(deltaY), 1000), 30, 300)
  IN
  /\ IF ~shift
     THEN /\ pan' = [x |-> c.x - RoundDiv((c.x - pan.x) * newScale, scale),
                     y |-> c.y - RoundDiv((c.y - pan.y) * newScale, scale)]
          /\ scale' = newScale
     ELSE /\ pan' = [x |-> pan.x - deltaX, y |-> pan.y - deltaY]
          /\ UNCHANGED scale
  /\ Note("other")
  /\ UNCHANGED <<storeVars, selVars, histVars, navVars, gestureVars, editVars,
                 freshTyping, contextMenu, timers>>

\* The ids for a marquee taken as drawn from its top-left corner.
MarqueeIdsForward ==
  LET inside == SelectSeq(nodes, LAMBDA n : n.x >= marquee.x1 /\ n.x <= marquee.x2
                                            /\ n.y >= marquee.y1 /\ n.y <= marquee.y2)
  IN [i \in DOMAIN inside |-> inside[i].id]

\* The ids, in store order, of the nodes whose centre the marquee holds
MarqueeIds ==
  LET minX == Min2(marquee.x1, marquee.x2)
      maxX == Max2(marquee.x1, marquee.x2)
      minY == Min2(marquee.y1, marquee.y2)
      maxY == Max2(marquee.y1, marquee.y2)
      inside == SelectSeq(nodes, LAMBDA n : n.x >= minX /\ n.x <= maxX
                                            /\ n.y >= minY /\ n.y <= maxY)
  IN [i \in DOMAIN inside |-> inside[i].id]

\* onPointerUpSvg(e), for pointer-up and for pointer-leave alike; t is Date.now()
PointerUp(pid, t) ==
  LET touches == {u \in activeTouches : u.id # pid}
      lk == linking.phase \in {"pending", "active"} /\ linking.sourceId # NoId
      targetId == findNodeAt(linking.x, linking.y, linking.sourceId)
      exists == \E i \in DOMAIN edges :
                  \/ edges[i].source = linking.sourceId /\ edges[i].target = targetId
                  \/ edges[i].source = targetId /\ edges[i].target = linking.sourceId
      commit == lk /\ targetId # NoId /\ ~exists
      once == Append(undoStack, cloneSnapshot(snapshot))
      twice == Append(once, cloneSnapshot(snapshot))
  IN
  /\ Len(undoStack) + (IF commit THEN 1 ELSE 0) + (IF somethingMoved THEN 1 ELSE 0) <= MaxUndo
  /\ activeTouches' = touches
  /\ pinchStart' = (IF Cardinality(touches) < 2 THEN NoPinch ELSE pinchStart)
  /\ undoStack' = (IF commit /\ somethingMoved THEN twice
                   ELSE IF commit \/ somethingMoved THEN once ELSE undoStack)
  /\ redoStack' = (IF commit \/ somethingMoved THEN <<>> ELSE redoStack)
  /\ edges' = (IF commit THEN Append(edges, NewEdge(t, linking.sourceId, targetId)) ELSE edges)
  /\ IF lk /\ targetId # NoId THEN selectOnly(targetId)
     ELSE IF marquee.active THEN selectFromArray(MarqueeIds) /\ UNCHANGED navVars
     ELSE UNCHANGED <<selVars, navVars, freshTyping>>
  /\ marquee' = (IF marquee.active THEN NoMarquee ELSE marquee)
  /\ linking' = (IF lk THEN IdleLinking ELSE linking)
  /\ draggingNodeId' = NoId
  /\ groupDragging' = FALSE
  /\ panning' = FALSE
  /\ somethingMoved' = FALSE
  /\ IF commit THEN Note("link")
     ELSE IF somethingMoved /\ dragPre.phase = "moved"
     THEN DragNote([dragPre EXCEPT !.phase = "done"])
     ELSE IF dragPre.phase = "down"
     THEN DragNote([dragPre EXCEPT !.phase = "still"])
     ELSE IF dragPre.phase \in {"done", "still"}
     THEN DragNote([dragPre EXCEPT !.left = TRUE])
     ELSE Note("other")
  /\ UNCHANGED <<nodes, viewVars, dragOffset, groupStart, groupStartPositions, panStart,
                 panAtStart, editVars, contextMenu, timers>>

\* onPointerLeave={onPointerUpSvg}: the pointer leaving the surface runs the
\* pointer-up handler.
PointerLeave(pid, t) == PointerUp(pid, t)

\* onPointerCancelSvg(e)
PointerCancel(pid) ==
  /\ activeTouches' = {u \in activeTouches : u.id # pid}
  /\ pinchStart' = NoPinch
  /\ panning' = FALSE
  /\ Record("other", dragPre, NoRun)
  /\ UNCHANGED <<storeVars, selVars, viewVars, histVars, navVars, dragVars, panStart,
                 panAtStart, marquee, linking, editVars, freshTyping, contextMenu, timers>>

\* A setTimeout callback runs: bringBoxIntoView computes from the pan and the
\* scale of the render that scheduled it.
TimerFire ==
  /\ timers # <<>>
  /\ LET t == Head(timers)
         np == bringPan(t.pan, t.scale, t.cx, t.cy, t.w, t.h)
     IN pan' = (IF np # t.pan THEN np ELSE pan)
  /\ timers' = Tail(timers)
  /\ opUndone' = NoSnap /\ undoPre' = NoSnap /\ undoRedone' = NoSnap
  /\ undoPost' = NoSnap /\ reUndone' = NoSnap
  /\ UNCHANGED <<storeVars, selVars, scale, histVars, navVars, gestureVars, editVars,
                 freshTyping, contextMenu, loaded, opPre, redoDropped, dragPre, tabRun,
                 tabFrom, altFrom, noted>>

\* ------------------------------------------------------------ context menu
ClosedMenu ==
  [open |-> FALSE, kind |-> "bg", targetNodeId |-> NoId, targetEdgeId |-> NoId,
   hasW |-> FALSE, wx |-> 0, wy |-> 0]

\* { ...contextMenu, open: false }
MenuShut == contextMenu' = [contextMenu EXCEPT !.open = FALSE]

\* The palette's colours, and the colours the menu actions try
Palette == {"#39FF14", "#FFFF33", "#FF073A", "#000000"}
PaletteTried == {"#39FF14", "#000000"}

\* hexToRgba60(hex) on the palette
hexToRgba60(hex) ==
  CASE hex = "#39FF14" -> "rgba(57,255,20,0.6)"
    [] hex = "#FFFF33" -> "rgba(255,255,51,0.6)"
    [] hex = "#FF073A" -> "rgba(255,7,58,0.6)"
    [] hex = "#000000" -> "rgba(0,0,0,0.6)"

\* contextmenu on node id
ContextMenuNode(id) ==
  /\ HasNode(nodes, id)
  /\ selectOnly(id)
  /\ contextMenu' = [open |-> TRUE, kind |-> "node", targetNodeId |-> id,
                     targetEdgeId |-> NoId, hasW |-> FALSE, wx |-> 0, wy |-> 0]
  /\ Note("other")
  /\ UNCHANGED <<storeVars, viewVars, histVars, gestureVars, editVars, timers>>

\* contextmenu on the i-th edge drawn
ContextMenuEdge(i) ==
  /\ i \in DOMAIN edges
  /\ EdgeShown(edges[i])
  /\ selectedIds' = <<>>
  /\ selectedId' = NoId
  /\ selectedEdgeIds' = <<edges[i].id>>
  /\ contextMenu' = [open |-> TRUE, kind |-> "edge", targetNodeId |-> NoId,
                     targetEdgeId |-> edges[i].id, hasW |-> FALSE, wx |-> 0, wy |-> 0]
  /\ Note("other")
  /\ UNCHANGED <<storeVars, viewVars, histVars, navVars, gestureVars, editVars,
                 freshTyping, timers>>

\* contextmenu on the background at client point c
ContextMenuBg(c) ==
  LET p == toWorld(c.x, c.y)
  IN /\ OnBackground(p.x, p.y)
     /\ contextMenu' = [open |-> TRUE, kind |-> "bg", targetNodeId |-> NoId,
                        targetEdgeId |-> NoId, hasW |-> TRUE, wx |-> p.x, wy |-> p.y]
     /\ Note("other")
     /\ UNCHANGED <<storeVars, selVars, viewVars, histVars, navVars, gestureVars,
                    editVars, freshTyping, timers>>

\* A click outside the open menu
ClickAway ==
  /\ contextMenu.open
  /\ MenuShut
  /\ Note("other")
  /\ UNCHANGED <<storeVars, selVars, viewVars, histVars, navVars, gestureVars,
                 editVars, freshTyping, timers>>

MenuOpen(kind) == contextMenu.open /\ contextMenu.kind = kind

\* Background menu: new node
MenuNewNode ==
  /\ MenuOpen("bg")
  /\ LET r == addStandalone(contextMenu.hasW, [x |-> contextMenu.wx, y |-> contextMenu.wy])
     IN /\ ApplyAdd(r, 0)
        /\ selectOnly(r.newId)
        /\ Note("op")
  /\ MenuShut
  /\ UNCHANGED <<viewVars, gestureVars, editVars>>

\* What a change of the nodes alone leaves, after pushHistory()
ApplyNodes(ns) ==
  /\ Len(undoStack) < MaxUndo
  /\ pushHistory
  /\ nodes' = ns
  /\ Note("op")
  /\ UNCHANGED <<edges, selVars, viewVars, navVars, gestureVars, editVars, freshTyping,
                 timers>>

\* What a change of the edges alone leaves, after pushHistory()
ApplyEdges(es) ==
  /\ Len(undoStack) < MaxUndo
  /\ pushHistory
  /\ edges' = es
  /\ Note("op")
  /\ UNCHANGED <<nodes, selVars, viewVars, navVars, gestureVars, editVars, freshTyping,
                 timers>>

\* nodes with fillColor set on the nodes in ids
WithFill(ids, fill) ==
  [i \in DOMAIN nodes |->
     IF nodes[i].id \in ids THEN [nodes[i] EXCEPT !.fillColor = fill] ELSE nodes[i]]

\* Background menu: a fill colour for the selection; applyFillToSelection(hex)
MenuFillSelection(hex) ==
  /\ MenuOpen("bg")
  /\ selectedIds # <<>>
  /\ ApplyNodes(WithFill(Range(selectedIds), hexToRgba60(hex)))
  /\ MenuShut

\* Background menu: clearFillOfSelection()
MenuClearFillSelection ==
  /\ MenuOpen("bg")
  /\ selectedIds # <<>>
  /\ ApplyNodes(WithFill(Range(selectedIds), Undefined))
  /\ MenuShut

\* Background menu: delete the selection
MenuDeleteSelection ==
  /\ MenuOpen("bg")
  /\ IF selectedIds # <<>> THEN ApplyRemoveNodes(selectedIds)
     ELSE selectedEdgeIds # <<>> /\ ApplyRemoveEdges(selectedEdgeIds)
  /\ MenuShut
  /\ Note("op")
  /\ UNCHANGED <<viewVars, navVars, gestureVars, editVars>>

\* Node menu: add a child of the target
MenuAddChild(t) ==
  /\ MenuOpen("node")
  /\ LET r == addChild(contextMenu.targetNodeId, t)
     IN /\ ApplyAdd(r, t)
        /\ selectOnly(r.newId)
        /\ Note(IF r.pushed THEN "op" ELSE "other")
  /\ MenuShut
  /\ UNCHANGED <<viewVars, gestureVars, editVars>>

\* Node menu: add a sibling of the target
MenuAddSibling(t) ==
  /\ MenuOpen("node")
  /\ LET r == addSiblingOf(contextMenu.targetNodeId, t)
     IN /\ ApplyAdd(r, t)
        /\ selectOnly(r.newId)
        /\ Note(IF r.pushed THEN "op" ELSE "other")
  /\ MenuShut
  /\ UNCHANGED <<viewVars, gestureVars, editVars>>

\* Node menu: toggle bold
\* Node menu: rename.  The handler opens the input on the node; it pushes no
\* snapshot.
MenuRename ==
  /\ MenuOpen("node")
  /\ editingId' = contextMenu.targetNodeId
  /\ editingText' = (IF HasNode(nodes, contextMenu.targetNodeId)
                     THEN FindNode(nodes, contextMenu.targetNodeId).label ELSE <<>>)
  /\ MenuShut
  /\ Note("other")
  /\ UNCHANGED <<storeVars, selVars, viewVars, histVars, navVars, gestureVars,
                 freshTyping, timers>>

\* onChange of the rename input with the new value v.  The input is
\* rendered inside the node that is being edited.
EditChange(v) ==
  /\ editingId # NoId
  /\ HasNode(nodes, editingId)
  /\ editingText' = v
  /\ Len(undoStack) < MaxUndo
  /\ pushHistory
  /\ nodes' = [i \in DOMAIN nodes |->
       IF nodes[i].id = editingId
       THEN resizeNodeForLabel([nodes[i] EXCEPT !.label = v]) ELSE nodes[i]]
  /\ Note("op")
  /\ UNCHANGED <<edges, selVars, viewVars, navVars, gestureVars, editingId, freshTyping,
                 contextMenu, timers>>

\* onBlur of the rename input, or Enter or Escape typed in it
EditEnd ==
  /\ editingId # NoId
  /\ editingId' = NoId
  /\ Note("other")
  /\ UNCHANGED <<storeVars, selVars, viewVars, histVars, navVars, gestureVars,
                 editingText, freshTyping, contextMenu, timers>>

MenuToggleBold ==
  /\ MenuOpen("node")
  /\ ApplyNodes([i \in DOMAIN nodes |->
                   IF nodes[i].id = contextMenu.targetNodeId
                   THEN [nodes[i] EXCEPT !.bold = ~@] ELSE nodes[i]])
  /\ MenuShut

\* Node menu: a fill colour for the target
MenuNodeFill(hex) ==
  /\ MenuOpen("node")
  /\ ApplyNodes(WithFill({contextMenu.targetNodeId}, hexToRgba60(hex)))
  /\ MenuShut

\* Node menu: clear the target's fill
MenuNodeClearFill ==
  /\ MenuOpen("node")
  /\ ApplyNodes(WithFill({contextMenu.targetNodeId}, Undefined))
  /\ MenuShut

\* Node menu: a stroke colour for the target
MenuStroke(hex) ==
  /\ MenuOpen("node")
  /\ ApplyNodes([i \in DOMAIN nodes |->
                   IF nodes[i].id = contextMenu.targetNodeId
                   THEN [nodes[i] EXCEPT !.strokeColor = hex] ELSE nodes[i]])
  /\ MenuShut

\* Node menu: delete the target
MenuDeleteNode ==
  /\ MenuOpen("node")
  /\ ApplyRemoveNodes(<<contextMenu.targetNodeId>>)
  /\ MenuShut
  /\ Note("op")
  /\ UNCHANGED <<viewVars, navVars, gestureVars, editVars>>

\* Edge menu: toggle dashed
MenuToggleDashed ==
  /\ MenuOpen("edge")
  /\ ApplyEdges([i \in DOMAIN edges |->
                   IF edges[i].id = contextMenu.targetEdgeId
                   THEN [edges[i] EXCEPT !.dashed = IF @ = "true" THEN "false" ELSE "true"]
                   ELSE edges[i]])
  /\ MenuShut

\* Edge menu: edit the label; ok = FALSE when the prompt is cancelled, next
\* the text entered
MenuEdgeLabel(ok, next) ==
  /\ MenuOpen("edge")
  /\ IF ok
     THEN ApplyEdges([i \in DOMAIN edges |->
                        IF edges[i].id = contextMenu.targetEdgeId
                        THEN [edges[i] EXCEPT !.label = next] ELSE edges[i]])
     ELSE /\ Note("other")
          /\ UNCHANGED <<storeVars, selVars, viewVars, histVars, navVars, gestureVars,
                         editVars, freshTyping, timers>>
  /\ MenuShut

\* Edge menu: delete the target
MenuDeleteEdge ==
  /\ MenuOpen("edge")
  /\ ApplyRemoveEdges(<<contextMenu.targetEdgeId>>)
  /\ MenuShut
  /\ Note("op")
  /\ UNCHANGED <<viewVars, navVars, gestureVars, editVars>>

\* ------------------------------------------------------------ the machine
\* The state after the first render and its layout effect, nothing stored.
\* The state of the first render, after the layout effect has centred the
\* viewport.
Start ==
  /\ nodes = << [id |-> 1, label |-> DefaultLabel, x |-> 0, y |-> 0, w |-> BASE_W,
                 h |-> BASE_H, strokeColor |-> "#333", fillColor |-> Undefined,
                 bold |-> FALSE] >>
  /\ edges = <<>>
  /\ selectedId = 1
  /\ selectedIds = <<1>>
  /\ selectedEdgeIds = <<>>
  /\ pan = [x |-> ViewW \div 2, y |-> ViewH \div 2]
  /\ scale = 100
  /\ undoStack = <<>>
  /\ redoStack = <<>>
  /\ shiftTabPath = <<>>
  /\ shiftTabIndex = 0
  /\ draggingNodeId = NoId
  /\ dragOffset = [dx |-> 0, dy |-> 0]
  /\ somethingMoved = FALSE
  /\ groupDragging = FALSE
  /\ groupStart = [x |-> 0, y |-> 0]
  /\ groupStartPositions = <<>>
  /\ panning = FALSE
  /\ panStart = [x |-> 0, y |-> 0]
  /\ panAtStart = [x |-> 0, y |-> 0]
  /\ activeTouches = {}
  /\ pinchStart = NoPinch
  /\ marquee = NoMarquee
  /\ linking = IdleLinking
  /\ editingId = NoId
  /\ editingText = <<>>
  /\ freshTyping = TRUE
  /\ contextMenu = ClosedMenu
  /\ timers = <<>>
  /\ opPre = NoSnap
  /\ redoDropped = 0
  /\ opUndone = NoSnap
  /\ undoPre = NoSnap
  /\ undoRedone = NoSnap
  /\ undoPost = NoSnap
  /\ reUndone = NoSnap
  /\ dragPre = NoDrag
  /\ tabRun = NoRun
  /\ tabFrom = NoId
  /\ altFrom = NoId
  /\ noted = "none"

\* ------------------------------------------------------------ persistence
\* What localStorage.getItem(STORAGE_KEY) returns, as far as the load effect
\* tells values apart: nothing (null or ""), text that JSON.parse rejects, or
\* text that parses to data.  data has the field nodes, or edges, exactly
\* when that field is an array; an element of an array is null or an object
\* with the fields the blob gives it.
Missing == [kind |-> "absent"]
Garbled == [kind |-> "garbled"]
Parsed(data) == [kind |-> "parsed", data |-> data]
Null == [null |-> TRUE]

\* v ?? d for the field f of the object o
Or(o, f, d) == IF f \in DOMAIN o THEN o[f] ELSE d
\* Number(o.f): NaN for a field that is not there
NumberOf(o, f) == Or(o, f, NaN)
\* Reading a field of null throws a TypeError.
Throws(list) == \E i \in DOMAIN list : list[i] = Null

\* data.nodes.map(n => ({...})) of the load effect
MigrateNodes(list) ==
  [i \in DOMAIN list |->
     LET n == list[i]
     IN [id |-> NumberOf(n, "id"),
         label |-> Or(n, "label", <<>>),
         x |-> NumberOf(n, "x"),
         y |-> NumberOf(n, "y"),
         w |-> Or(n, "w", BASE_W),
         h |-> Or(n, "h", BASE_H),
         strokeColor |-> Or(n, "strokeColor", "#333"),
         fillColor |-> Or(n, "fillColor", Undefined),
         bold |-> Or(n, "bold", FALSE)]]
\* data.edges.map(e => ({...})): a label that is falsy becomes undefined
MigrateEdges(list) ==
  [i \in DOMAIN list |->
     LET e == list[i]
     IN [id |-> NumberOf(e, "id"),
         source |-> NumberOf(e, "source"),
         target |-> NumberOf(e, "target"),
         label |-> Or(e, "label", <<>>),
         dashed |-> IF Or(e, "dashed", FALSE) THEN "true" ELSE "false"]]

\* Whether the load effect reaches its two setters.
Loads(blob) ==
  /\ blob.kind = "parsed"
  /\ "nodes" \in DOMAIN blob.data
  /\ "edges" \in DOMAIN blob.data
  /\ ~Throws(blob.data.nodes)
  /\ ~Throws(blob.data.edges)

\* A load effect that stores the nodes as soon as they are migrated.
LoadNodesFirst(blob) ==
  /\ ~loaded
  /\ loaded' = TRUE
  /\ IF blob.kind = "parsed" /\ "nodes" \in DOMAIN blob.data /\ ~Throws(blob.data.nodes)
     THEN nodes' = MigrateNodes(blob.data.nodes)
     ELSE UNCHANGED nodes
  /\ IF Loads(blob)
     THEN edges' = MigrateEdges(blob.data.edges)
     ELSE UNCHANGED edges
  /\ UNCHANGED <<selVars, viewVars, histVars, navVars, gestureVars, editVars, freshTyping,
                 contextMenu, timers, ghostVars>>

\* The load effect, run once after the first render, with the stored blob.
Load(blob) ==
  /\ ~loaded
  /\ loaded' = TRUE
  /\ IF Loads(blob)
     THEN /\ nodes' = MigrateNodes(blob.data.nodes)
          /\ edges' = MigrateEdges(blob.data.edges)
     ELSE UNCHANGED <<nodes, edges>>
  /\ UNCHANGED <<selVars, viewVars, histVars, navVars, gestureVars, editVars, freshTyping,
                 contextMenu, timers, ghostVars>>

\* Mounted with nothing stored: the load effect has returned at once.
Init == Start /\ loaded = TRUE
\* Mounted with something stored: the load effect has yet to run.
InitStored == Start /\ loaded = FALSE

\* Every clock reading the state still holds: the ids of the edges in the
\* store, in the snapshots, in the selection and in the menu.
SnapEdgeIds(sn) == EdgeIds(sn.edges) \cup Range(sn.selectedEdgeIds)
ReadingsHeld ==
  UNION ({SnapEdgeIds(snapshot), {contextMenu.targetEdgeId},
          SnapEdgeIds(opPre), SnapEdgeIds(opUndone), SnapEdgeIds(undoPre),
          SnapEdgeIds(undoRedone), SnapEdgeIds(undoPost), SnapEdgeIds(reUndone)}
         \cup {SnapEdgeIds(undoStack[i]) : i \in DOMAIN undoStack}
         \cup {SnapEdgeIds(redoStack[i]) : i \in DOMAIN redoStack})
\* Date.now() when the clock has advanced since it was last read: a reading
\* the state holds nowhere.  Readings are only compared for equality, so
\* the least number not held stands for every such reading.
DateNow ==
  CHOOSE t \in 1..(Cardinality(ReadingsHeld) + 1) :
    /\ t \notin ReadingsHeld
    /\ \A v \in 1..(t - 1) : v \in ReadingsHeld

\* Date.now() at a call: the clock has advanced since the newest edge of the
\* store was created, or it has not (two calls within one millisecond, a
\* coarse or stopped clock) and the reading is that edge's id again.
ClockReadings ==
  {DateNow} \cup (IF edges = <<>> THEN {} ELSE {edges[Len(edges)].id})

\* The inputs tried: the one pointer, the characters typed, the client
\* points on the background.
Pointers == {1}
Chars == {"a"}
BgPoints == {[x |-> 40, y |-> 40], [x |-> 760, y |-> 560]}
NodePoints == {ScreenOf(nodes[i]) : i \in DOMAIN nodes}
EdgeTexts == {<<>>, <<"b">>}
\* The values the rename input is given: empty, one short word, one word of
\* forty characters.
RenameTexts == {<<>>, <<"a", "b">>, [i \in 1..40 |-> "a"]}
MenuPoint == [x |-> 40, y |-> 40]

\* A pointer gesture is under way: a link, a marquee or a drag.
Gesture ==
  \/ linking.phase # "idle"
  \/ marquee.active
  \/ draggingNodeId # NoId
  \/ groupDragging
\* Nothing is under way: no gesture, no menu open, every timeout has run.
Quiet == ~Gesture /\ ~contextMenu.open /\ timers = <<>>
\* The node store may still grow in the specification at hand.
RoomFew == Len(nodes) < MaxFew
RoomSome == Len(nodes) < MaxSome
\* The undo stack is short.
Shallow == Len(undoStack) <= MaxShallow

\* One input at a time: a key or a menu is used only when nothing is under
\* way, a timeout runs before the next input, and the pointer is used for
\* the shift-click and the link gesture.  A menu is opened and a shift
\* pointer-down is made only while the undo stack has room for the snapshot
\* that the command or the link pushes.
Next ==
  \/ Quiet /\ KeyUndo
  \/ Quiet /\ KeyRedo
  \/ Quiet /\ RoomFew /\ KeyEnter(DateNow) /\ Shallow'
  \/ Quiet /\ RoomFew /\ KeyShiftEnter(DateNow) /\ Shallow'
  \/ Quiet /\ KeyShiftBackspace /\ Shallow'
  \/ Quiet /\ KeyBackspace /\ Shallow'
  \/ Quiet /\ \E ch \in Chars : KeyChar(ch) /\ Shallow'
  \/ Quiet /\ KeyGrow /\ Shallow'
  \/ Quiet /\ KeyShrink /\ Shallow'
  \/ Quiet /\ Len(undoStack) < MaxShallow
       /\ \E i \in DOMAIN nodes : PointerDownNode(nodes[i].id, TRUE, 1, DateNow) /\ Shallow'
  \/ Quiet /\ \E i \in DOMAIN edges : EdgePointerDown(i, FALSE)
  \/ Gesture /\ \E c \in NodePoints : PointerMove(1, c)
  \/ Gesture /\ PointerUp(1, DateNow) /\ Shallow'
  \/ Quiet /\ Len(undoStack) < MaxShallow /\ \E i \in DOMAIN nodes : ContextMenuNode(nodes[i].id)
  \/ Quiet /\ Len(undoStack) < MaxShallow /\ \E i \in DOMAIN edges : ContextMenuEdge(i)
  \/ Quiet /\ Len(undoStack) < MaxShallow /\ ContextMenuBg(MenuPoint)
  \/ ClickAway
  \/ RoomFew /\ MenuNewNode /\ Shallow'
  \/ \E hex \in PaletteTried : MenuFillSelection(hex) /\ Shallow'
  \/ MenuClearFillSelection /\ Shallow'
  \/ MenuDeleteSelection /\ Shallow'
  \/ RoomFew /\ MenuAddChild(DateNow) /\ Shallow'
  \/ RoomFew /\ MenuAddSibling(DateNow) /\ Shallow'
  \/ MenuToggleBold /\ Shallow'
  \/ \E hex \in PaletteTried : MenuNodeFill(hex) /\ Shallow'
  \/ MenuNodeClearFill /\ Shallow'
  \/ \E hex \in PaletteTried : MenuStroke(hex) /\ Shallow'
  \/ MenuDeleteNode /\ Shallow'
  \/ MenuToggleDashed /\ Shallow'
  \/ \E ok \in BOOLEAN, next \in EdgeTexts : MenuEdgeLabel(ok, next) /\ Shallow'
  \/ MenuDeleteEdge /\ Shallow'
  \/ TimerFire

Spec == Init /\ [][Next]_vars



\* ------------------------------------------------------------ gestures
\* Every node lies within MaxCoord of the origin.
Within ==
  \A i \in DOMAIN nodes : /\ nodes[i].x >= -MaxCoord /\ nodes[i].x <= MaxCoord
                          /\ nodes[i].y >= -MaxCoord /\ nodes[i].y <= MaxCoord

\* Drags: a node is dragged alone, or with the others a marquee selected,
\* and undo is pressed at any moment.
NextDrag ==
  \/ KeyUndo
  \/ Quiet /\ RoomFew /\ KeyEnter(DateNow) /\ Shallow'
  \/ ~Gesture /\ \E i \in DOMAIN nodes : PointerDownNode(nodes[i].id, FALSE, 1, DateNow)
  \/ ~Gesture /\ \E c \in BgPoints : PointerDownBg(TRUE, 1, c)
  \/ marquee.active /\ \E c \in BgPoints : PointerMove(1, c)
  \/ Gesture /\ ~marquee.active /\ \E c \in NodePoints : PointerMove(1, c) /\ Within'
  \/ Gesture /\ PointerUp(1, DateNow) /\ Shallow'
  \/ TimerFire

SpecDrag == Init /\ [][NextDrag]_vars

\* Links: shift-click and the link gesture, with undo, redo and Enter
\* pressed at any moment of the gesture.
NextLink ==
  \/ KeyUndo
  \/ KeyRedo
  \/ RoomFew /\ KeyEnter(DateNow) /\ Shallow'
  \/ RoomFew /\ KeyShiftEnter(DateNow) /\ Shallow'
  \/ ~Gesture /\ \E i \in DOMAIN nodes : PointerDownNode(nodes[i].id, TRUE, 1, DateNow) /\ Shallow'
  \/ Gesture /\ \E c \in NodePoints \cup BgPoints : PointerMove(1, c)
  \/ Gesture /\ PointerUp(1, DateNow) /\ Shallow'
  \/ TimerFire

SpecLink == Init /\ [][NextLink]_vars

\* Presses: maps of up to MaxSome nodes are built, a marquee selects some of
\* the nodes, a node is pressed and dragged, and the gesture ends with
\* pointer-up, pointer-leave or pointer-cancel.
\* No pointer is down on the surface.
Lifted == activeTouches = {}
\* The pointer is up, no marquee is drawn and every timeout has run.
Rested == Lifted /\ ~marquee.active /\ timers = <<>>
NextPress ==
  \/ Quiet /\ RoomSome /\ KeyEnter(DateNow) /\ Shallow'
  \/ Rested /\ \E i \in DOMAIN nodes : PointerDownNode(nodes[i].id, FALSE, 1, DateNow)
  \/ Rested /\ ~Gesture /\ \E c \in BgPoints : PointerDownBg(TRUE, 1, c)
  \/ marquee.active /\ \E c \in BgPoints \cup NodePoints : PointerMove(1, c)
  \/ Gesture /\ ~marquee.active /\ Len(nodes) <= MaxFew
       /\ \E c \in NodePoints : PointerMove(1, c) /\ Within'
  \/ Gesture /\ PointerUp(1, DateNow) /\ Shallow'
  \/ PointerLeave(1, DateNow) /\ Shallow'
  \/ ~Lifted /\ PointerCancel(1)
  \/ TimerFire

SpecPress == Init /\ [][NextPress]_vars
\* Zoom: the wheel zooms and scrolls, one or two pointers go down on the
\* background, move and go up (a pan or a pinch), and Enter, undo and redo
\* are pressed in between.  Nothing is tried once the scale is NaN.
Finite == scale # NaN
ZoomPointers == {1, 2}
Centre == [x |-> ViewW \div 2, y |-> ViewH \div 2]
\* The world's origin is at the centre of the surface.
Centred == pan = Centre
WheelSteps == {-1000, 1000}
Down(pid) == \E t \in activeTouches : t.id = pid
\* The world's origin is on the surface, or the viewport is NaN.
Shown ==
  \/ scale = NaN
  \/ pan.x >= 0 /\ pan.x <= ViewW /\ pan.y >= 0 /\ pan.y <= ViewH
\* Nothing has been done yet that undo could take back.
Untouched == undoStack = <<>> /\ redoStack = <<>>
NextZoom ==
  \/ Finite /\ Rested /\ \E dy \in WheelSteps : Wheel(FALSE, pan, 0, dy)
  \/ Finite /\ Rested /\ Centred /\ Wheel(TRUE, Centre, 100, 100)
  \/ Finite /\ timers = <<>> /\ Centred /\ \E pid \in ZoomPointers, c \in BgPoints :
       ~Down(pid) /\ PointerDownBg(FALSE, pid, c)
  \/ Finite /\ \E pid \in ZoomPointers, c \in BgPoints :
       Down(pid) /\ PointerMove(pid, c) /\ Shown'
  \/ Finite /\ \E pid \in ZoomPointers : Down(pid) /\ PointerUp(pid, DateNow)
  \/ Finite /\ Rested /\ Untouched /\ KeyEnter(DateNow)
  \/ Finite /\ Rested /\ KeyUndo
  \/ Finite /\ Rested /\ KeyRedo
  \/ Finite /\ TimerFire

SpecZoom == Init /\ [][NextZoom]_vars
\* Sizes: a child is added, the selected node is grown and shrunk with the
\* keys, typed into and cleared with Backspace, and undo is pressed; the
\* node of a one-node map is renamed through its menu.
NextSize ==
  \/ Quiet /\ RoomFew /\ KeyEnter(DateNow)
  \/ Quiet /\ KeyGrow
  \/ Quiet /\ KeyShrink
  \/ Quiet /\ \E ch \in Chars : KeyChar(ch)
  \/ Quiet /\ KeyBackspace
  \/ Quiet /\ KeyUndo
  \/ Quiet /\ KeyboardOpen /\ Len(nodes) = 1 /\ ContextMenuNode(nodes[1].id)
  \/ MenuRename
  \/ \E v \in RenameTexts : EditChange(v)
  \/ EditEnd
  \/ TimerFire

SpecSize == Init /\ [][NextSize]_vars

\* Edge creation with every clock reading: children and free nodes are added
\* and nodes are joined by shift-click and by link gestures.
NextClock ==
  \/ Quiet /\ RoomSome /\ \E t \in ClockReadings : KeyEnter(t)
  \/ Quiet /\ RoomSome /\ KeyShiftEnter(DateNow)
  \/ Quiet /\ \E i \in DOMAIN nodes, t \in ClockReadings :
                 PointerDownNode(nodes[i].id, TRUE, 1, t)
  \/ linking.phase # "idle" /\ \E c \in NodePoints : PointerMove(1, c)
  \/ Gesture /\ \E t \in ClockReadings : PointerUp(1, t)
  \/ TimerFire

SpecClock == Init /\ [][NextClock]_vars

\* Placement: the node of the one-node map is renamed to one long word, which
\* makes it wide; free nodes are added from the background menu, at a point
\* just below that node or far from it, and with Shift+Enter; Enter adds
\* children.
WideTexts == {[i \in 1..64 |-> "a"]}
PlacePoints == {[x |-> ViewW \div 2, y |-> ViewH \div 2 + BASE_H], MenuPoint}
NextPlace ==
  \/ Quiet /\ KeyboardOpen /\ Len(nodes) = 1 /\ undoStack = <<>>
       /\ ContextMenuNode(nodes[1].id)
  \/ MenuRename
  \/ undoStack = <<>> /\ \E v \in WideTexts : EditChange(v)
  \/ EditEnd
  \/ Quiet /\ KeyboardOpen /\ \E c \in PlacePoints : ContextMenuBg(c)
  \/ RoomSome /\ MenuNewNode
  \/ Quiet /\ RoomSome /\ KeyShiftEnter(DateNow)
  \/ Quiet /\ RoomFew /\ KeyEnter(DateNow)
  \/ ClickAway
  \/ TimerFire

SpecPlace == Init /\ [][NextPlace]_vars

\* The menus: every command of the background, node and edge menus on maps
\* of up to two nodes and the rename input, two snapshots deep.
NextMenu ==
  \/ Quiet /\ KeyboardOpen /\ RoomFew /\ KeyEnter(DateNow) /\ Shallow'
  \/ Quiet /\ KeyboardOpen /\ \E i \in DOMAIN nodes : ContextMenuNode(nodes[i].id)
  \/ Quiet /\ KeyboardOpen /\ \E i \in DOMAIN edges : ContextMenuEdge(i)
  \/ Quiet /\ KeyboardOpen /\ ContextMenuBg(MenuPoint)
  \/ ClickAway
  \/ RoomFew /\ MenuNewNode /\ Shallow'
  \/ \E hex \in PaletteTried : MenuFillSelection(hex) /\ Shallow'
  \/ MenuClearFillSelection /\ Shallow'
  \/ MenuDeleteSelection /\ Shallow'
  \/ RoomFew /\ MenuAddChild(DateNow) /\ Shallow'
  \/ RoomFew /\ MenuAddSibling(DateNow) /\ Shallow'
  \/ MenuRename
  \/ \E v \in EdgeTexts : EditChange(v) /\ Shallow'
  \/ EditEnd
  \/ MenuToggleBold /\ Shallow'
  \/ \E hex \in PaletteTried : MenuNodeFill(hex) /\ Shallow'
  \/ MenuNodeClearFill /\ Shallow'
  \/ \E hex \in PaletteTried : MenuStroke(hex) /\ Shallow'
  \/ MenuDeleteNode /\ Shallow'
  \/ MenuToggleDashed /\ Shallow'
  \/ \E ok \in BOOLEAN, next \in EdgeTexts : MenuEdgeLabel(ok, next) /\ Shallow'
  \/ MenuDeleteEdge /\ Shallow'
  \/ TimerFire

SpecMenu == Init /\ [][NextMenu]_vars

\* Startup with a stored blob: the load effect runs first, then children are
\* added, the selection is removed, and undo is pressed.  The blobs tried:
\* none, unparsable text, data without the two arrays, arrays holding a
\* null, and maps of no, one and two nodes whose objects leave fields out.
StoredNode1 == [id |-> 1, x |-> 0, y |-> 0]
StoredNode2 == [id |-> 2, label |-> <<"a">>, x |-> 200, y |-> 0, w |-> BASE_W, h |-> BASE_H,
                strokeColor |-> "#000000", bold |-> TRUE]
StoredNode7 == [id |-> 7, label |-> <<>>, x |-> 0, y |-> 200]
StoredEdge == [id |-> 5, source |-> 1, target |-> 2]
StoredEdgeDashed == [id |-> 6, source |-> 1, target |-> 2, label |-> <<"b">>, dashed |-> TRUE]
Blobs ==
  {Missing, Garbled,
   Parsed([version |-> 1]),
   Parsed([nodes |-> <<StoredNode1>>]),
   Parsed([edges |-> <<>>]),
   Parsed([nodes |-> <<StoredNode1, Null>>, edges |-> <<>>]),
   Parsed([nodes |-> <<StoredNode1, StoredNode2>>, edges |-> <<StoredEdge, Null>>]),
   Parsed([nodes |-> <<StoredNode1, StoredNode2>>, edges |-> <<StoredEdgeDashed>>]),
   Parsed([nodes |-> <<StoredNode1, StoredNode2>>, edges |-> <<StoredEdge>>]),
   Parsed([nodes |-> <<StoredNode7>>, edges |-> <<>>]),
   Parsed([nodes |-> <<>>, edges |-> <<>>])}
NextLoad ==
  \/ \E blob \in Blobs : Load(blob)
  \/ loaded /\ Quiet /\ RoomSome /\ KeyEnter(DateNow)
  \/ loaded /\ Quiet /\ KeyShiftBackspace
  \/ loaded /\ Quiet /\ KeyUndo
  \/ TimerFire

SpecLoad == InitStored /\ [][NextLoad]_vars

\* The follow-up of a structural change and the wheel: a child or a free
\* node is added or the selection is removed, and before the timeout runs
\* at most one wheel event is handled, a zoom about the middle of the
\* surface or a scroll.
Fresh == pan = Head(timers).pan /\ scale = Head(timers).scale
NextView ==
  \/ Quiet /\ RoomSome /\ KeyEnter(DateNow) /\ Shallow'
  \/ Quiet /\ RoomSome /\ KeyShiftEnter(DateNow) /\ Shallow'
  \/ Quiet /\ KeyShiftBackspace /\ Shallow'
  \/ timers # <<>> /\ Fresh /\ \E dy \in WheelSteps : Wheel(FALSE, Centre, 0, dy)
  \/ timers # <<>> /\ Fresh /\ Wheel(TRUE, Centre, 100, 100)
  \/ TimerFire

SpecView == Init /\ [][NextView]_vars

\* Label layout over many inputs: a one-node map is loaded whose node has a
\* label of k words of n characters, a height that gives one of the font
\* sizes 12, 14, 16, 18, 20 and a width that is the layout's minimum width;
\* then the node is typed into, cleared, and renamed.
Spaced(k, n) == [i \in 1..(k * (n + 1) - 1) |-> IF i % (n + 1) = 0 THEN " " ELSE "a"]
LayoutLabels ==
  {<<>>, <<" ">>, Spaced(1, 1), Spaced(1, 30), Spaced(4, 8), Spaced(6, 3), Spaced(9, 2),
   DefaultLabel}
LayoutHeights == {34, 40, 46, 52, BASE_H}
LayoutWidths == {80, BASE_W, 200}
LayoutBlobs ==
  {Parsed([nodes |-> <<[id |-> 1, label |-> text, x |-> 0, y |-> 0, w |-> w, h |-> h]>>,
           edges |-> <<>>]) :
     text \in LayoutLabels, w \in LayoutWidths, h \in LayoutHeights}
NextLayout ==
  \/ \E blob \in LayoutBlobs : Load(blob)
  \/ loaded /\ Quiet /\ \E ch \in Chars : KeyChar(ch) /\ Shallow'
  \/ loaded /\ Quiet /\ KeyBackspace /\ Shallow'
  \/ loaded /\ Quiet /\ KeyboardOpen /\ undoStack = <<>> /\ ContextMenuNode(nodes[1].id)
  \/ MenuRename
  \/ undoStack = <<>> /\ \E v \in LayoutLabels : EditChange(v)
  \/ EditEnd

SpecLayout == InitStored /\ [][NextLayout]_vars

\* Arrow keys: the map is the default one or a stored one of two nodes, the
\* second with or without coordinates; children and free nodes are added to
\* maps whose nodes all have coordinates, and the arrows are pressed.
Placed == \A i \in DOMAIN nodes : NaN \notin {nodes[i].x, nodes[i].y}
ArrowBlobs ==
  {Missing,
   Parsed([nodes |-> <<StoredNode1, StoredNode2>>, edges |-> <<StoredEdge>>]),
   Parsed([nodes |-> <<StoredNode1, [id |-> 2, label |-> <<"a">>]>>, edges |-> <<>>])}
NextArrow ==
  \/ \E blob \in ArrowBlobs : Load(blob)
  \/ loaded /\ Placed /\ Quiet /\ KeyEnter(DateNow)
  \/ loaded /\ Placed /\ Quiet /\ KeyShiftEnter(DateNow)
  \/ loaded /\ Quiet /\ \E key \in ArrowKeys : KeyArrow(key)
  \/ loaded /\ Quiet /\ KeyEscape
  \/ TimerFire

SpecArrow == InitStored /\ [][NextArrow]_vars

\* Presses, marquees and drags with the Escape key pressed at any moment.
NextEscape ==
  \/ Quiet /\ RoomSome /\ KeyEnter(DateNow) /\ Shallow'
  \/ Rested /\ \E i \in DOMAIN nodes : PointerDownNode(nodes[i].id, FALSE, 1, DateNow)
  \/ Rested /\ ~Gesture /\ \E c \in BgPoints : PointerDownBg(TRUE, 1, c)
  \/ marquee.active /\ \E c \in BgPoints \cup NodePoints : PointerMove(1, c)
  \/ Gesture /\ ~marquee.active /\ Len(nodes) <= MaxFew
       /\ \E c \in NodePoints : PointerMove(1, c) /\ Within'
  \/ Gesture /\ PointerUp(1, DateNow) /\ Shallow'
  \/ KeyEscape
  \/ TimerFire

SpecEscape == Init /\ [][NextEscape]_vars

\* Node clicks, edge clicks, marquees, keyboard commands, removals, undo and redo.
NextSelect ==
  \/ Quiet /\ RoomFew /\ KeyEnter(DateNow) /\ Shallow'
  \/ Quiet /\ Lifted /\ \E i \in DOMAIN nodes : PointerDownNode(nodes[i].id, FALSE, 1, DateNow)
  \/ Quiet /\ Lifted /\ undoStack = <<>>
       /\ \E i \in DOMAIN nodes : PointerDownNode(nodes[i].id, TRUE, 1, DateNow)
  \/ Quiet /\ \E i \in DOMAIN edges, shift \in BOOLEAN : EdgePointerDown(i, shift)
  \/ Quiet /\ Lifted /\ PointerDownBg(TRUE, 1, MenuPoint)
  \/ marquee.active /\ \E c \in NodePoints : PointerMove(1, c)
  \/ Gesture /\ PointerUp(1, DateNow) /\ Shallow'
  \/ Quiet /\ \E i \in DOMAIN edges : ContextMenuEdge(i)
  \/ ClickAway
  \/ MenuDeleteEdge /\ Shallow'
  \/ Quiet /\ KeyEscape
  \/ Quiet /\ KeyShiftBackspace /\ Shallow'
  \/ Quiet /\ KeyUndo
  \/ Quiet /\ KeyRedo
  \/ TimerFire

SpecSelect == Init /\ [][NextSelect]_vars

\* Children, shift-click links, link gestures and Shift+Tab.
NextCycle ==
  \/ Quiet /\ RoomSome /\ KeyEnter(DateNow)
  \/ Quiet /\ Lifted /\ \E i \in DOMAIN nodes : PointerDownNode(nodes[i].id, TRUE, 1, DateNow)
  \/ linking.phase # "idle" /\ \E c \in NodePoints : PointerMove(1, c)
  \/ Gesture /\ PointerUp(1, DateNow)
  \/ Quiet /\ KeyShiftTab
  \/ TimerFire

SpecCycle == Init /\ [][NextCycle]_vars

\* Screen points ten pixels to the right of a node's centre.
NearPoints == {[x |-> q.x + 10, y |-> q.y] : q \in NodePoints}

\* Link gestures: pointer 1 presses with shift on a node when no link is under
\* way, moves near and far, and is lifted, leaves or is cancelled; a second
\* pointer (another finger or pointing device) presses with shift on a node
\* while the link of the first is active.
NextPhase ==
  \/ Quiet /\ RoomFew /\ KeyEnter(DateNow) /\ Shallow'
  \/ linking.phase = "idle" /\ Lifted
       /\ \E i \in DOMAIN nodes : PointerDownNode(nodes[i].id, TRUE, 1, DateNow) /\ Shallow'
  \/ linking.phase = "active"
       /\ \E i \in DOMAIN nodes : PointerDownNode(nodes[i].id, TRUE, 2, DateNow) /\ Shallow'
  \/ linking.phase # "idle" /\ \E c \in NodePoints \cup NearPoints \cup BgPoints : PointerMove(1, c)
  \/ linking.phase # "idle" /\ PointerUp(1, DateNow) /\ Shallow'
  \/ linking.phase # "idle" /\ PointerLeave(1, DateNow) /\ Shallow'
  \/ linking.phase # "idle" /\ PointerCancel(1)
  \/ TimerFire

SpecPhase == Init /\ [][NextPhase]_vars

\* New nodes, children, siblings, removals, undo and redo.
NextIds ==
  \/ Quiet /\ RoomSome /\ KeyEnter(DateNow)
  \/ Quiet /\ RoomSome /\ KeyShiftEnter(DateNow)
  \/ Quiet /\ ContextMenuBg(MenuPoint)
  \/ RoomSome /\ MenuNewNode
  \/ Quiet /\ \E i \in DOMAIN nodes : ContextMenuNode(nodes[i].id)
  \/ MenuDeleteNode
  \/ Quiet /\ KeyShiftBackspace
  \/ Quiet /\ KeyUndo
  \/ Quiet /\ KeyRedo
  \/ TimerFire

SpecIds == Init /\ [][NextIds]_vars

\* ------------------------------------------------------------ removal
\* Removal: maps of up to MaxSome nodes are built, nodes are selected by a
\* marquee or a menu and removed by key or by menu.  A link gesture from the
\* selected node, with undo pressed during it to take back the first
\* operation, leaves an edge whose source is no node.
FirstTaken == Len(undoStack) = 1 /\ redoStack = <<>>
NextRemove ==
  \/ Quiet /\ RoomSome /\ KeyEnter(DateNow)
  \/ Quiet /\ RoomSome /\ KeyShiftEnter(DateNow)
  \/ linking.phase = "pending" /\ FirstTaken /\ KeyUndo
  \/ Quiet /\ HasNode(nodes, selectedId) /\ PointerDownNode(selectedId, TRUE, 1, DateNow)
  \/ Quiet /\ PointerDownBg(TRUE, 1, MenuPoint)
  \/ marquee.active /\ \E c \in BgPoints \cup NodePoints : PointerMove(1, c)
  \/ linking.phase # "idle" /\ \E c \in NodePoints : PointerMove(1, c)
  \/ Gesture /\ PointerUp(1, DateNow)
  \/ Quiet /\ KeyShiftBackspace
  \/ Quiet /\ KeyBackspace
  \/ Quiet /\ \E i \in DOMAIN nodes : ContextMenuNode(nodes[i].id)
  \/ Quiet /\ ContextMenuBg(MenuPoint)
  \/ MenuDeleteNode
  \/ MenuDeleteSelection
  \/ ClickAway
  \/ TimerFire

SpecRemove == Init /\ [][NextRemove]_vars


\* ------------------------------------------------------------ navigation
\* Navigation: maps of up to MaxNodes nodes are built with Enter and
\* Shift+Enter, a node is selected through its menu, and Tab and Shift+Tab
\* are pressed.
NextNav ==
  \/ Quiet /\ KeyEnter(DateNow)
  \/ Quiet /\ KeyShiftEnter(DateNow)
  \/ Quiet /\ KeyTab
  \/ Quiet /\ KeyAltTab
  \/ Quiet /\ KeyShiftTab
  \/ Quiet /\ \E i \in DOMAIN nodes : ContextMenuNode(nodes[i].id)
  \/ ClickAway
  \/ TimerFire

SpecNav == Init /\ [][NextNav]_vars

\* ------------------------------------------------------------ undo and redo
\* What undo() and redo() are said to bring back.
snapVars == <<storeVars, selVars, viewVars>>

\* C1: undo() right after a discrete mutating operation restores nodes,
\* edges, pan, scale, selectedId, selectedIds and selectedEdgeIds to exactly
\* the values they had before the operation.
C1_UndoRestoresPreOperation == opUndone # NoSnap => snapshot = opUndone
\* An operation that changed nodes, edges and selection has been undone.
C1_Witness ==
  /\ opUndone # NoSnap
  /\ undoPre.nodes # opUndone.nodes
  /\ undoPre.edges # opUndone.edges
  /\ undoPre.selectedId # opUndone.selectedId

\* C2: redo() right after undo() restores the state that held just before
\* that undo(), and a following undo() returns to the undone state again.
C2_RedoInvertsUndo ==
  /\ undoRedone # NoSnap => snapshot = undoRedone
  /\ reUndone # NoSnap => snapshot = reUndone
\* undo, redo, undo have run in a row, and the undo changed the store.
C2_Witness ==
  /\ reUndone # NoSnap
  /\ undoPre.nodes # reUndone.nodes
  /\ undoPre.selectedIds # reUndone.selectedIds

\* C4: every pushHistory() empties the redo stack: after undo() calls and
\* then one new mutating operation the redo stack is empty, and redo()
\* changes nothing.
C4_PushEmptiesRedo ==
  /\ [](opPre # NoSnap => redoStack = <<>>)
  /\ [][(opPre # NoSnap /\ KeyRedo) => UNCHANGED <<snapVars, histVars>>]_vars
\* A mutating operation has just run while the redo stack held snapshots.
C4_Witness == opPre # NoSnap /\ redoDropped > 0 /\ undoStack # <<>>

\* C8: Enter with exactly one node p selected creates exactly one new node,
\* with id max(existing ids) + 1, exactly one edge, from p to the new node,
\* and makes the new node the sole and primary selection.
MaxId(ns) == CHOOSE m \in NodeIds(ns) : \A v \in NodeIds(ns) : v <= m
C8_EnterAddsChild ==
  [][\A p \in NodeIds(nodes) :
       (selectedIds = <<p>> /\ KeyEnter(DateNow)) =>
         /\ Len(nodes') = Len(nodes) + 1
         /\ SubSeq(nodes', 1, Len(nodes)) = nodes
         /\ Last(nodes').id = MaxId(nodes) + 1
         /\ Len(edges') = Len(edges) + 1
         /\ SubSeq(edges', 1, Len(edges)) = edges
         /\ Last(edges').source = p
         /\ Last(edges').target = MaxId(nodes) + 1
         /\ selectedId' = MaxId(nodes) + 1
         /\ selectedIds' = <<MaxId(nodes) + 1>>
         /\ selectedEdgeIds' = <<>>]_vars
\* Enter has just added node 2 under node 1 from a one-node map.
C8_Witness ==
  /\ opPre # NoSnap
  /\ opPre.selectedIds = <<1>>
  /\ Len(opPre.nodes) = 1
  /\ NodeIds(nodes) = {1, 2}
  /\ \E i \in DOMAIN edges : edges[i].source = 1 /\ edges[i].target = 2
  /\ selectedIds = <<2>> /\ selectedId = 2


\* ------------------------------------------------------------ drags and links
\* The node of ns with the given id.
PlaceOf(ns, id) ==
  LET n == ns[CHOOSE i \in DOMAIN ns : ns[i].id = id] IN [x |-> n.x, y |-> n.y]

\* C3: after a completed node drag, of one node or of a group, one undo()
\* returns every moved node to the position it had at pointer-down.
C3_UndoReturnsDraggedNodes ==
  [][(dragPre.phase = "done" /\ undoStack # <<>> /\ KeyUndo) =>
       \A id \in dragPre.moved :
         /\ id \in NodeIds(nodes')
         /\ PlaceOf(nodes', id) = PlaceOf(dragPre.nodes, id)]_vars
\* A group drag has been completed that left two nodes at new positions.
C3_Witness ==
  /\ dragPre.phase = "done"
  /\ Cardinality(dragPre.moved) = 2
  /\ \A id \in dragPre.moved :
       id \in NodeIds(nodes) /\ PlaceOf(nodes, id) # PlaceOf(dragPre.nodes, id)
  /\ undoStack # <<>>

\* C6: in every reachable state no edge has its source equal to its target
\* and no two edges connect the same unordered pair of nodes.
C6_NoSelfEdgeNoDuplicatePair ==
  \A i \in DOMAIN edges :
    /\ edges[i].source # edges[i].target
    /\ \A j \in DOMAIN edges :
         i # j => {edges[i].source, edges[i].target} # {edges[j].source, edges[j].target}
\* A link gesture has just added an edge whose source is no node any more.
C6_Witness ==
  /\ opPre # NoSnap
  /\ Len(edges) = Len(opPre.edges) + 1
  /\ nodes = opPre.nodes
  /\ ~HasNode(nodes, Last(edges).source)


\* ------------------------------------------------------------ removeNodes
\* The step is a call of removeNodes(ids): Shift+Backspace or the menu's
\* delete with nodes selected, Backspace with several nodes selected, the
\* node menu's delete.
RemovesNodes(ids) ==
  \/ ids = selectedIds /\ ids # <<>> /\ KeyShiftBackspace
  \/ ids = selectedIds /\ Len(ids) > 1 /\ KeyBackspace
  \/ ids = selectedIds /\ ids # <<>> /\ MenuDeleteSelection
  \/ ids = <<contextMenu.targetNodeId>> /\ MenuDeleteNode
\* The id lists removeNodes can be called with in the state at hand.
Removable == {selectedIds, <<contextMenu.targetNodeId>>}

\* C5: after removeNodes(ids), ids not empty, no node with an id in ids
\* remains and no edge has an end in ids; the nodes not in ids and the edges
\* touching none of ids are unchanged.
C5_RemoveNodesPurges ==
  [][\A ids \in Removable :
       RemovesNodes(ids) =>
         /\ \A i \in DOMAIN nodes' : nodes'[i].id \notin Range(ids)
         /\ \A i \in DOMAIN edges' : /\ edges'[i].source \notin Range(ids)
                                     /\ edges'[i].target \notin Range(ids)
         /\ nodes' = SelectSeq(nodes, LAMBDA n : n.id \notin Range(ids))
         /\ edges' = SelectSeq(edges, LAMBDA e : /\ e.source \notin Range(ids)
                                                 /\ e.target \notin Range(ids))]_vars
\* A removal has taken a node and an edge and left a node and an edge.
C5_Witness ==
  /\ opPre # NoSnap
  /\ Len(nodes) < Len(opPre.nodes) /\ nodes # <<>>
  /\ Len(edges) < Len(opPre.edges) /\ edges # <<>>

\* The source of the first edge that targets id, NoId when none does.
FirstParent(id) ==
  LET into == {i \in DOMAIN edges : edges[i].target = id}
  IN IF into = {} THEN NoId
     ELSE edges[CHOOSE i \in into : \A j \in into : i <= j].source

ExpectedOf(run) ==
  LET len == Len(run.path)
      n == run.presses
  IN IF n <= len - 1 THEN run.path[len - n]
     ELSE IF n <= 2 * (len - 1) THEN run.path[n - (len - 1) + 1]
     ELSE run.path[len]

\* C9: consecutive Shift+Tab presses move the selection one step toward the
\* root per press, then walk back down the remembered path one step per
\* press to the node the walk started from, and then change nothing.
C9_ShiftTabUpThenDown == tabRun.presses > 0 => selectedId = ExpectedOf(tabRun)
\* Shift+Tab has been pressed twice from the child of a root.
C9_Witness == tabRun.presses = 2 /\ Len(tabRun.path) = 2

\* The children of p, and the place of child c seen from p.
ChildrenSet(p) == {edges[i].target : i \in {j \in DOMAIN edges : edges[j].source = p}}
Seen(p, c) ==
  [x |-> FindNode(nodes, c).x - FindNode(nodes, p).x,
   y |-> FindNode(nodes, c).y - FindNode(nodes, p).y]
\* Child a of p lies at a greater angle than child b.
Before(p, a, b) == AngleAbove(Seen(p, a).x, Seen(p, a).y, Seen(p, b).x, Seen(p, b).y)
\* The child of p with the greatest angle among set.
Greatest(p, set) == CHOOSE c \in set : \A d \in set : ~Before(p, d, c)
\* The child after c in descending angle around p, the first after the last.
ClockwiseNext(p, c) ==
  LET below == {d \in ChildrenSet(p) : Before(p, c, d)}
  IN IF below # {} THEN Greatest(p, below) ELSE Greatest(p, ChildrenSet(p))

RECURSIVE TabTimes(_, _)
\* The node selected after k presses of Tab from id.
TabTimes(id, k) == IF k = 0 THEN id ELSE TabTimes(TabTarget(id), k - 1)
\* No node has two edges coming in, and no walk up the parents comes back.
Forest ==
  /\ \A i, j \in DOMAIN edges : edges[i].target = edges[j].target => i = j
  /\ \A i \in DOMAIN nodes : buildRootPathEnds(nodes[i].id)

LeastOf(set) == CHOOSE m \in set : \A v \in set : m <= v

\* C11: Alt+Tab or Meta+Tab with exactly one node selected makes that
\* node's child with the smallest id the sole selection; with no children the
\* selection is unchanged.
C11_AltTabFirstChild ==
  [][\A s \in NodeIds(nodes) :
       (selectedIds = <<s>> /\ selectedId = s /\ KeyAltTab) =>
         IF ChildrenSet(s) = {} THEN UNCHANGED selVars
         ELSE /\ selectedId' = LeastOf(ChildrenSet(s))
              /\ selectedIds' = <<LeastOf(ChildrenSet(s))>>
              /\ selectedEdgeIds' = <<>>]_vars
\* Alt+Tab has been pressed on a node that has a child.
C11_Witness == altFrom # NoId /\ ChildrenSet(altFrom) # {}

\* The selection a snapshot holds, as sets.
SelectionOf(s) == <<Range(s.selectedIds), Range(s.selectedEdgeIds)>>
\* The last input (an operation or an undo) changed the selection.
SelectionChanged ==
  \/ opPre # NoSnap /\ noted # "char" /\ SelectionOf(opPre) # SelectionOf(snapshot)
  \/ undoPre # NoSnap /\ SelectionOf(undoPre) # SelectionOf(snapshot)
\* The step gives every selected edge, or with no edge selected every
\* selected node, the label char (replace) or its old label followed by char.
Typing(char, replace) ==
  IF selectedEdgeIds # <<>>
  THEN \A i \in DOMAIN edges :
         edges[i].id \in Range(selectedEdgeIds) =>
           edges'[i].label = (IF replace THEN <<char>> ELSE Append(edges[i].label, char))
  ELSE \A i \in DOMAIN nodes :
         nodes[i].id \in Range(selectedIds) =>
           nodes'[i].label = (IF replace THEN <<char>> ELSE Append(nodes[i].label, char))
\* C12: the first printable keystroke after a selection change replaces the
\* label of every selected node (of every selected edge when edges are
\* selected) with that character, and a keystroke that follows a keystroke
\* with no selection change in between appends its character.
C12_FirstKeyReplacesNextAppends ==
  [][\A ch \in Chars :
       KeyChar(ch) => /\ SelectionChanged => Typing(ch, TRUE)
                      /\ noted = "char" => Typing(ch, FALSE)]_vars
\* A keystroke has just been appended to a selected node's label.
C12_Witness ==
  /\ noted = "char"
  /\ \E i \in DOMAIN nodes :
       /\ nodes[i].id \in Range(selectedIds)
       /\ Len(nodes[i].label) >= 2

\* Exactly one node is selected and its label is empty.
OneEmptySelected ==
  /\ Len(selectedIds) = 1
  /\ \E i \in DOMAIN nodes : nodes[i].id = selectedIds[1] /\ nodes[i].label = <<>>
\* C13: Backspace without shift, with exactly one node selected whose label
\* is already empty, leaves nodes, edges, selection, viewport and both the
\* undo and the redo stack unchanged.
C13_BackspaceOnEmptyLabel ==
  [][(OneEmptySelected /\ KeyBackspace) =>
       UNCHANGED <<storeVars, selVars, viewVars, histVars>>]_vars
\* Backspace has just run on a single selected node with an empty label: the
\* state is the one before the key.
C13_Witness ==
  /\ opPre # NoSnap /\ noted = "none"
  /\ opPre = snapshot
  /\ OneEmptySelected

\* C14: Shift+pointer-down on a node, with no inline edit open, begins a
\* link gesture whatever the selection is: the linking phase becomes pending
\* with that node as source, and the step creates no edge.
C14_ShiftDownBeginsLink ==
  [][\A id \in NodeIds(nodes) :
       (editingId = NoId /\ PointerDownNode(id, TRUE, 1, DateNow)) =>
         /\ linking'.phase = "pending"
         /\ linking'.sourceId = id
         /\ edges' = edges]_vars
\* An operation on an unchanged node store has added an edge from the node
\* selected before to the node selected now, and no link gesture is under way.
C14_Witness ==
  /\ opPre # NoSnap /\ noted = "none" /\ opPre.nodes = nodes
  /\ linking.phase = "idle"
  /\ Len(edges) = Len(opPre.edges) + 1
  /\ edges[Len(edges)].source = opPre.selectedId
  /\ edges[Len(edges)].target = selectedId

\* A link gesture is under way.
LinkUnderWay == linking.phase \in {"pending", "active"} /\ linking.sourceId # NoId
\* The nodes other than the source that the link's point lies over.
OverNodes ==
  {nodes[i].id : i \in {j \in DOMAIN nodes :
     /\ nodes[j].id # linking.sourceId
     /\ isPointInNode(nodes[j], linking.x, linking.y)}}
\* An edge joins the unordered pair.
Joined(a, b) ==
  \E i \in DOMAIN edges :
    \/ edges[i].source = a /\ edges[i].target = b
    \/ edges[i].source = b /\ edges[i].target = a
C16_PressStartsDrag ==
  [][\A N \in NodeIds(nodes) :
       (editingId = NoId /\ linking.phase = "idle"
          /\ PointerDownNode(N, FALSE, 1, DateNow)) =>
         IF N \in Range(selectedIds) /\ Len(selectedIds) > 1
         THEN /\ groupDragging'
              /\ {groupStartPositions'[i].id : i \in DOMAIN groupStartPositions'}
                   = Range(selectedIds)
              /\ Range(selectedIds') = Range(selectedIds)
         ELSE /\ selectedIds' = <<N>> /\ selectedId' = N
              /\ draggingNodeId' = N
              /\ ~groupDragging']_vars
\* A group drag is under way over nodes none of which is selected.
C16_Witness ==
  /\ groupDragging
  /\ Len(selectedIds) = 1
  /\ selectedIds[1] \notin {groupStartPositions[i].id : i \in DOMAIN groupStartPositions}

\* C17: a drag gesture (pointer-down on a node, n pointer-moves, pointer-up,
\* possibly followed by pointer-leave) pushes exactly one history snapshot
\* when n >= 1 and none when n = 0, whatever n is.
C17_DragPushesOnce ==
  dragPre.phase \in {"done", "still"} =>
    Len(undoStack) = dragPre.base + (IF dragPre.phase = "done" THEN 1 ELSE 0)
\* A drag with moves has ended and the pointer has left the surface after it.
C17_Witness == dragPre.phase = "done" /\ dragPre.left

\* C18: a pointer-cancel or pointer-leave event commits nothing: whatever
\* gesture is in progress it adds no edge, changes no selection and pushes no
\* history snapshot.
C18_CancelLeaveCommitNothing ==
  [][(PointerCancel(1) \/ PointerLeave(1, DateNow)) =>
       /\ edges' = edges
       /\ UNCHANGED selVars
       /\ undoStack' = undoStack]_vars
\* The handler that pointer-leave runs has ended a marquee that holds two
\* nodes: they are the selection.
C18_Witness ==
  /\ Lifted /\ ~marquee.active /\ ~groupDragging
  /\ Len(selectedIds) = 2
  /\ dragPre.phase = "none"

\* The node's centre lies between the marquee's corners, bounds included,
\* whichever way the marquee was drawn.
CentreInMarquee(n) ==
  /\ \/ marquee.x1 <= n.x /\ n.x <= marquee.x2
     \/ marquee.x2 <= n.x /\ n.x <= marquee.x1
  /\ \/ marquee.y1 <= n.y /\ n.y <= marquee.y2
     \/ marquee.y2 <= n.y /\ n.y <= marquee.y1
C20_ScaleInRange == scale >= 30 /\ scale <= 300
\* A pinch is under way that has brought the scale down to its lower bound.
C20_Witness ==
  /\ Cardinality(activeTouches) = 2 /\ pinchStart.set
  /\ scale = 30 /\ pinchStart.scale > 30

C22_ResizeKeysClamp ==
  [][(KeyGrow \/ KeyShrink) =>
       \A i \in DOMAIN nodes :
         IF nodes[i].id \in Range(selectedIds)
         THEN /\ 80 <= nodes'[i].w /\ nodes'[i].w <= 420
              /\ 48 <= nodes'[i].h /\ nodes'[i].h <= 240
         ELSE nodes'[i].w = nodes[i].w /\ nodes'[i].h = nodes[i].h]_vars
\* A selected node wider than 420 has just been made narrower by a key and
\* is still wider than 420.
C22_Witness ==
  /\ opPre # NoSnap
  /\ \E i \in DOMAIN nodes :
       /\ nodes[i].id \in Range(selectedIds)
       /\ nodes[i].w > 420
       /\ \E j \in DOMAIN opPre.nodes :
            /\ opPre.nodes[j].id = nodes[i].id
            /\ opPre.nodes[j].label = nodes[i].label
            /\ opPre.nodes[j].w > nodes[i].w

\* The ids of the nodes the state still knows of: those in the store and
\* those in the snapshots of the two history stacks.  Each was given to a node
\* created earlier.
HeldNodeIds ==
  UNION ({NodeIds(nodes)}
         \cup {NodeIds(undoStack[k].nodes) : k \in DOMAIN undoStack}
         \cup {NodeIds(redoStack[k].nodes) : k \in DOMAIN redoStack})
\* C23: node ids are assigned monotonically: the id given to a newly
\* created node is strictly greater than the id of every node created before
\* it, also after deletions.  Stated for the nodes the store and the history
\* still hold when an operation (not an undo or redo) brings a new id into the
\* store.
C23_NodeIdsGrow ==
  [][opPre' # NoSnap =>
       \A id \in NodeIds(nodes') \ NodeIds(nodes) :
         \A old \in HeldNodeIds : id > old]_vars
\* An operation has just created a node with an id that a node removed
\* earlier had: the snapshot pushed by the removal still shows that node.
C23_Witness ==
  /\ opPre # NoSnap
  /\ \E i \in DOMAIN nodes :
       /\ nodes[i].id \notin NodeIds(opPre.nodes)
       /\ \E k \in DOMAIN undoStack : nodes[i].id \in NodeIds(undoStack[k].nodes)

\* C24: in every reachable state the ids of the edges in the store are
\* pairwise distinct, for every timing of the edge-creating operations,
\* including two edges created while the clock has not advanced.
C24_EdgeIdsDistinct ==
  \A i, j \in DOMAIN edges : i # j => edges[i].id # edges[j].id
\* Two edges are in the store and the newer was created by an operation
\* that found the older one there.
C24_Witness ==
  /\ Len(edges) >= 2
  /\ opPre # NoSnap
  /\ Len(opPre.edges) = Len(edges) - 1
  /\ opPre.edges # <<>>

\* A call of addStandalone: the background menu's new node, or Shift+Enter
\* on a node without a parent.
StandaloneCall ==
  \/ MenuNewNode
  \/ getParentId(selectedId) = NoId /\ KeyShiftEnter(DateNow)
\* C25: addStandalone, with or without a target point, adds exactly one
\* node and returns its id (the caller selects it), also when the search
\* finds no free position within its 60 or 120 attempts; no existing node and
\* no edge is changed.
C25_AddStandaloneAddsOne ==
  [][StandaloneCall =>
       /\ Len(nodes') = Len(nodes) + 1
       /\ \A i \in DOMAIN nodes : nodes'[i] = nodes[i]
       /\ edges' = edges
       /\ nodes'[Len(nodes')].id \notin NodeIds(nodes)
       /\ selectedId' = nodes'[Len(nodes')].id
       /\ selectedIds' = <<selectedId'>>]_vars
\* The newest node is at a point that an older node keeps from being free.
TooClose ==
  LET n == nodes[Len(nodes)]
  IN \E i \in 1..(Len(nodes) - 1) :
       LET dx == n.x - nodes[i].x
           dy == n.y - nodes[i].y
           r == rectDiameter(nodes[i]) \div 2 + Max2(BASE_W, BASE_H) \div 2 + NODE_PADDING
       IN dx * dx + dy * dy < r * r
\* addStandalone has just added a node (no edge came with it) although its
\* 60 attempts around the target point found no free position.
C25_Witness ==
  /\ opPre # NoSnap
  /\ Len(nodes) = Len(opPre.nodes) + 1
  /\ edges = opPre.edges
  /\ contextMenu.kind = "bg"
  /\ TooClose
\* The same without a target point: the 120 attempts found nothing free.
C25_WitnessCentre ==
  /\ opPre # NoSnap
  /\ Len(nodes) = Len(opPre.nodes) + 1
  /\ edges = opPre.edges
  /\ contextMenu.kind # "bg"
  /\ TooClose

\* A call of one of the commands the menus use: addStandaloneAt, addChild,
\* addSiblingOf, renameStart, toggleBold, setFill, setStroke,
\* toggleEdgeDashed, setEdgeLabel (the prompt answered), removeNodes,
\* removeEdges.
CommandCall ==
  \/ MenuNewNode
  \/ MenuAddChild(DateNow)
  \/ MenuAddSibling(DateNow)
  \/ MenuRename
  \/ MenuToggleBold
  \/ \E hex \in PaletteTried : MenuNodeFill(hex) \/ MenuFillSelection(hex)
  \/ MenuNodeClearFill
  \/ MenuClearFillSelection
  \/ \E hex \in PaletteTried : MenuStroke(hex)
  \/ MenuToggleDashed
  \/ \E next \in EdgeTexts : MenuEdgeLabel(TRUE, next)
  \/ MenuDeleteNode
  \/ MenuDeleteEdge
  \/ MenuDeleteSelection
\* C26: each command-surface call pushes exactly one history snapshot: the
\* undo stack grows by exactly 1 per call.
C26_CommandPushesOne ==
  [][CommandCall => Len(undoStack') = Len(undoStack) + 1]_vars
\* The same for the commands other than renameStart.
C26_OtherCommandsPushOne ==
  [][(CommandCall /\ ~MenuRename) => Len(undoStack') = Len(undoStack) + 1]_vars
\* The rename command has been called and has opened the input; the undo
\* stack is still empty.
C26_Witness ==
  /\ editingId # NoId
  /\ HasNode(nodes, editingId)
  /\ editingText = FindNode(nodes, editingId).label
  /\ undoStack = <<>>

\* The blob is absent, is not parseable, lacks array-valued nodes and
\* edges, or holds an element whose coercion throws.
Spoilt(blob) ==
  \/ blob.kind \in {"absent", "garbled"}
  \/ /\ blob.kind = "parsed"
     /\ \/ {"nodes", "edges"} \ DOMAIN blob.data # {}
        \/ Null \in Range(blob.data.nodes) \cup Range(blob.data.edges)
\* C27: the startup load is all-or-nothing: with a blob that is absent,
\* not parseable, without array-valued nodes and edges, or with an element
\* whose coercion throws, nodes, edges and selection stay exactly the
\* default single-node start state; otherwise nodes and edges are both
\* replaced by what the blob holds.
C27_LoadAllOrNothing ==
  [][\A blob \in Blobs :
       Load(blob) =>
         IF Spoilt(blob)
         THEN /\ nodes' = nodes /\ Len(nodes') = 1 /\ nodes'[1].id = 1
              /\ nodes'[1].label = DefaultLabel
              /\ edges' = <<>>
              /\ selectedId' = 1 /\ selectedIds' = <<1>> /\ selectedEdgeIds' = <<>>
         ELSE /\ NodeIds(nodes') = {n.id : n \in Range(blob.data.nodes)}
              /\ EdgeIds(edges') = {e.id : e \in Range(blob.data.edges)}
              /\ Len(nodes') = Len(blob.data.nodes)
              /\ Len(edges') = Len(blob.data.edges)]_vars
\* The load effect has run and has left the default map: one node with the
\* default label, no edge, node 1 selected, no history.
C27_Witness ==
  /\ loaded
  /\ Len(nodes) = 1 /\ nodes[1].id = 1 /\ nodes[1].label = DefaultLabel
  /\ edges = <<>>
  /\ selectedIds = <<1>>
  /\ undoStack = <<>> /\ redoStack = <<>>
  /\ opPre = NoSnap /\ undoPre = NoSnap

\* The pan bringBoxIntoView gives for the oldest pending follow-up when it
\* computes from the pan and scale of the state it runs in.
CurrentBring ==
  LET t == Head(timers)
      np == bringPan(pan, scale, t.cx, t.cy, t.w, t.h)
  IN IF np # pan THEN np ELSE pan
\* C28: the zero-delay bring-into-view follow-up computes from the pan and
\* scale that are current when it runs: with a wheel event handled between
\* the structural change and the follow-up, the pan it writes is derived
\* from that event's pan and scale, not from the values of the render that
\* scheduled it.
C28_FollowUpUsesCurrentView ==
  [][TimerFire => pan' = CurrentBring]_vars
\* A follow-up is pending, a wheel event has changed the viewport since it
\* was scheduled, and the pan computed from the captured values differs from
\* the one computed from the current values.
C28_Witness ==
  /\ timers # <<>>
  /\ ~Fresh
  /\ LET t == Head(timers)
         np == bringPan(t.pan, t.scale, t.cx, t.cy, t.w, t.h)
     IN (IF np # t.pan THEN np ELSE pan) # CurrentBring

\* C29: for every label text, every font size in 12..20 and every minimum
\* width, layoutLabel returns at least 1 and at most 3 lines.  Stated for
\* the layouts the render computes for the nodes of the state.
C29_LayoutLines ==
  \A i \in DOMAIN nodes :
    LET L == RenderedLabel(nodes[i],
                           IF editingId = nodes[i].id THEN editingText ELSE nodes[i].label)
    IN 1 <= Len(L.lines) /\ Len(L.lines) <= 3
\* A change of the label has just resized a node to the height of four
\* lines at font size 20.
C29_Witness ==
  /\ opPre # NoSnap
  /\ \E i \in DOMAIN nodes :
       /\ nodes[i].h = 4 * LineHeight(20) + 24
       /\ Len(layoutLabel(nodes[i].label, 20, BASE_W).lines) = 4

\* The displacement of n from cur has a strictly positive dot product with
\* the direction of the arrow.
Ahead(cur, n, key) == ~ArrowNaN(cur, n) /\ ArrowDot(cur, n, key) > 0
\* C30: an arrow key moves the primary selection only to a node whose
\* displacement from the selected node has a strictly positive dot product
\* with the arrow's direction; when no node has one, the selection and all
\* other state are unchanged.
C30_ArrowMovesAhead ==
  [][\A key \in ArrowKeys :
       (KeyArrow(key) /\ HasNode(nodes, selectedId)) =>
         LET cur == FindNode(nodes, selectedId)
         IN /\ selectedId' # selectedId =>
                 \E i \in DOMAIN nodes :
                   nodes[i].id = selectedId' /\ Ahead(cur, nodes[i], key)
            /\ (\A i \in DOMAIN nodes : ~Ahead(cur, nodes[i], key)) =>
                 UNCHANGED progVars]_vars
\* The same in the maps whose nodes all have coordinates.
C30_ArrowMovesAheadPlaced ==
  [][\A key \in ArrowKeys :
       (KeyArrow(key) /\ HasNode(nodes, selectedId) /\ Placed) =>
         LET cur == FindNode(nodes, selectedId)
         IN /\ selectedId' # selectedId =>
                 \E i \in DOMAIN nodes :
                   nodes[i].id = selectedId' /\ Ahead(cur, nodes[i], key)
            /\ (\A i \in DOMAIN nodes : ~Ahead(cur, nodes[i], key)) =>
                 UNCHANGED progVars]_vars
\* The selection is on a node that has no coordinates, in a map without
\* history: only an arrow key has moved it there.
C30_Witness ==
  /\ loaded
  /\ undoStack = <<>>
  /\ \E i \in DOMAIN nodes :
       /\ nodes[i].id = selectedId
       /\ nodes[i].x = NaN /\ nodes[i].y = NaN

\* ------------------------------------------------------------ C31
\* The nodes of the drag in flight: those whose start position the pointer-down
\* captured (group drag), or the node held by draggingNodeId.
Dragged ==
  (IF groupDragging
   THEN {groupStartPositions[i].id : i \in DOMAIN groupStartPositions}
   ELSE {draggingNodeId}) \cap NodeIds(nodes)

\* Where a pointer-move to the screen point c takes a node of the drag in flight.
DraggedTo(id, c) ==
  LET p == toWorld(c.x, c.y)
  IN IF groupDragging
     THEN [x |-> StartOf(id).x + (p.x - groupStart.x),
           y |-> StartOf(id).y + (p.y - groupStart.y)]
     ELSE [x |-> p.x + dragOffset.dx, y |-> p.y + dragOffset.dy]

\* A pointer-move of a node drag in flight.
DragMove(c) ==
  /\ groupDragging \/ draggingNodeId # NoId
  /\ ~marquee.active
  /\ linking.phase = "idle"
  /\ PointerMove(1, c)

\* C31: Escape empties the node and the edge selection and leaves nodes, edges,
\* viewport, history stacks and the drag in flight as they are; every
\* pointer-move of a drag in flight, single-node or group, takes each dragged
\* node to the pointer's position, whether or not Escape was pressed before.
C31_EscapeKeepsDrag ==
  [][/\ KeyEscape =>
          /\ selectedId' = NoId /\ selectedIds' = <<>> /\ selectedEdgeIds' = <<>>
          /\ UNCHANGED <<storeVars, viewVars, histVars, dragVars>>
     /\ \A c \in NodePoints :
          DragMove(c) => \A id \in Dragged : PlaceOf(nodes', id) = DraggedTo(id, c)]_vars

\* The part of C31 that concerns the Escape step alone.
C31_EscapeClearsOnly ==
  [][KeyEscape =>
       /\ selectedId' = NoId /\ selectedIds' = <<>> /\ selectedEdgeIds' = <<>>
       /\ UNCHANGED <<storeVars, viewVars, histVars, dragVars>>]_vars

\* The part of C31 that concerns a single-node drag.
C31_SingleDragGoesOn ==
  [][\A c \in NodePoints :
       (~groupDragging /\ DragMove(c)) =>
         \A id \in Dragged : PlaceOf(nodes', id) = DraggedTo(id, c)]_vars

\* A group drag of two nodes is in flight and Escape has emptied the selection.
C31_Witness ==
  /\ groupDragging
  /\ Cardinality(Dragged) = 2
  /\ selectedIds = <<>>
  /\ ~Lifted

\* ------------------------------------------------------------ C32
\* C32: in every reachable state the node selection or the edge selection is
\* empty, in the program's state and in every snapshot of both history stacks.
C32_OneSelection ==
  /\ selectedIds = <<>> \/ selectedEdgeIds = <<>>
  /\ \A i \in DOMAIN undoStack :
       undoStack[i].selectedIds = <<>> \/ undoStack[i].selectedEdgeIds = <<>>
  /\ \A i \in DOMAIN redoStack :
       redoStack[i].selectedIds = <<>> \/ redoStack[i].selectedEdgeIds = <<>>

\* An undo has brought back an edge selection while a snapshot with a node
\* selection waits on the redo stack.
C32_Witness ==
  /\ selectedEdgeIds # <<>>
  /\ selectedIds = <<>>
  /\ redoStack # <<>>
  /\ redoStack[Len(redoStack)].selectedIds # <<>>

\* ------------------------------------------------------------ C33
\* C33: in every reachable state both ends of every edge are ids of nodes in the
\* store.
C33_NoDanglingEdge ==
  \A i \in DOMAIN edges : HasNode(nodes, edges[i].source) /\ HasNode(nodes, edges[i].target)

\* The store holds an edge from an id that is no node to a node, and no link
\* gesture is under way.
C33_Witness ==
  /\ linking.phase = "idle"
  /\ \E i \in DOMAIN edges :
       ~HasNode(nodes, edges[i].source) /\ HasNode(nodes, edges[i].target)

\* ------------------------------------------------------------ C34
\* Shift+Tab would build its path anew from the selected node.
ShiftTabWalks ==
  /\ KeyboardOpen
  /\ selectedId # NoId /\ Len(selectedIds) = 1
  /\ shiftTabPath = <<>> \/ selectedId \notin Range(shiftTabPath)

\* C34: in every reachable state where Shift+Tab walks up the parent chain of
\* the selected node, the walk of buildRootPath comes to an end.
C34_ShiftTabTerminates == ShiftTabWalks => buildRootPathEnds(selectedId)

\* The parent chain of the selected node runs through three nodes and back to it.
C34_Witness ==
  /\ ShiftTabWalks
  /\ Quiet
  /\ getParentId(getParentId(getParentId(selectedId))) = selectedId
  /\ getParentId(selectedId) # selectedId
  /\ getParentId(selectedId) # NoId

\* ------------------------------------------------------------ C35
\* A pointer-move would take the group branch of the move handler.
GroupMoves == groupDragging /\ ~marquee.active /\ linking.phase = "idle"

\* The ids whose start position the pointer-down of the group drag captured.
Captured == {groupStartPositions[i].id : i \in DOMAIN groupStartPositions}

\* The pointer-moves of a group drag reposition captured nodes only, all by the
\* same vector from their captured positions, and leave the other nodes and the
\* edges as they are.
C35_GroupMoveShifts ==
  [][\A c \in NodePoints :
       (GroupMoves /\ PointerMove(1, c)) =>
         LET p == toWorld(c.x, c.y)
             movedIds == {nodes[i].id : i \in {j \in DOMAIN nodes : nodes'[j] # nodes[j]}}
         IN /\ movedIds \subseteq Captured
            /\ Len(nodes') = Len(nodes)
            /\ \A i \in DOMAIN nodes :
                 IF nodes[i].id \in Range(selectedIds)
                 THEN nodes'[i] =
                        [nodes[i] EXCEPT !.x = StartOf(nodes[i].id).x + (p.x - groupStart.x),
                                         !.y = StartOf(nodes[i].id).y + (p.y - groupStart.y)]
                 ELSE nodes'[i] = nodes[i]
            /\ edges' = edges]_vars

\* C35: while a group drag is under way every node that a pointer-move would
\* reposition (every selected node of the store) has a start position captured
\* at the pointer-down, so the move handler reads no missing start position;
\* and the moves shift the captured nodes only, by one vector.
C35_GroupMoveCaptured ==
  /\ [](GroupMoves => ~GroupMoveThrows)
  /\ C35_GroupMoveShifts

\* With the pointer down on node 3 a group drag is under way whose captured
\* start positions are those of nodes 1 and 2, while node 3 is the selection.
C35_Witness ==
  /\ GroupMoves
  /\ ~Lifted
  /\ GroupMoveThrows
  /\ Cardinality(Captured) = 2
  /\ Range(selectedIds) \cap Captured = {}

\* ------------------------------------------------------------ C36
\* The squared world distance of the screen point c from the gesture's start.
FromStart2(c) ==
  LET p == toWorld(c.x, c.y)
  IN (p.x - linking.startX) * (p.x - linking.startX)
       + (p.y - linking.startY) * (p.y - linking.startY)

\* A pointer-move within the threshold leaves a pending link pending, one beyond
\* it makes the link active.
C36_MoveWithinThreshold ==
  [][\A c \in NodePoints \cup NearPoints \cup BgPoints :
       (linking.phase = "pending" /\ ~marquee.active /\ PointerMove(1, c)) =>
         linking'.phase = (IF BeyondThreshold(FromStart2(c)) THEN "active" ELSE "pending")]_vars

\* C36: the linking phase changes only from idle to pending, from pending to
\* active and from pending or active to idle; never from idle to active or
\* from active to pending; and a pointer-move within the threshold leaves the
\* phase pending.
C36_LinkingPhaseSteps ==
  /\ [][\/ linking'.phase = linking.phase
        \/ linking.phase = "idle" /\ linking'.phase = "pending"
        \/ linking.phase = "pending" /\ linking'.phase = "active"
        \/ linking.phase \in {"pending", "active"} /\ linking'.phase = "idle"]_vars
  /\ C36_MoveWithinThreshold

\* A link is active from the selected node, its end away from its start.
C36_Witness ==
  /\ linking.phase = "active"
  /\ linking.sourceId = selectedId
  /\ BeyondThreshold((linking.x - linking.startX) * (linking.x - linking.startX)
                     + (linking.y - linking.startY) * (linking.y - linking.startY))

\* ------------------------------------------------------------ C37
\* C37: in every reachable state every id in selectedIds, and selectedId when it
\* is not null, is the id of a node in the store, and every id in
\* selectedEdgeIds is the id of an edge in the store.
C37_SelectionInStore ==
  /\ Range(selectedIds) \subseteq NodeIds(nodes)
  /\ selectedId # NoId => selectedId \in NodeIds(nodes)
  /\ Range(selectedEdgeIds) \subseteq EdgeIds(edges)

\* The load has replaced the store by a map with nodes none of which has the
\* selected id.
C37_Witness ==
  /\ loaded
  /\ nodes # <<>>
  /\ undoStack = <<>> /\ redoStack = <<>>
  /\ selectedId # NoId
  /\ selectedId \notin NodeIds(nodes)
  /\ selectedIds = <<selectedId>>

\* ------------------------------------------------------------ C38
\* The ids of the nodes of ns are pairwise distinct.
DistinctIds(ns) == \A i, j \in DOMAIN ns : i # j => ns[i].id # ns[j].id

\* C38: in every state reachable from the default start the ids of the nodes in
\* the store are pairwise distinct, and so are those of every snapshot that
\* undo or redo can bring back.
C38_NodeIdsDistinct ==
  /\ DistinctIds(nodes)
  /\ \A i \in DOMAIN undoStack : DistinctIds(undoStack[i].nodes)
  /\ \A i \in DOMAIN redoStack : DistinctIds(redoStack[i].nodes)

\* Two nodes are in the store after an undo, and a snapshot on the redo stack
\* holds the later node with the same id as the second of them at another
\* place: the id was given again after a removal.
C38_Witness ==
  /\ Len(nodes) = 2
  /\ \E i \in DOMAIN redoStack :
       /\ Len(redoStack[i].nodes) = 2
       /\ redoStack[i].nodes[2].id = nodes[2].id
       /\ PlaceOf(redoStack[i].nodes, nodes[2].id) # PlaceOf(nodes, nodes[2].id)

====
